---- MODULE Spec2Model ----
(***************************************************************************)
(* Annotation scanner of scan_annotations.py: the per-file reduction of    *)
(* token lists to nine counters, the additive group result, and the lazy   *)
(* corpus walker (scan_files / scan_folder) with its natural path order.   *)
(***************************************************************************)
EXTENDS Integers, Sequences, FiniteSets, TLC

VARIABLES
    \* --- corpus walker (scan_folder / scan_files and its consumer) ---
    fs,          \* the scanned folder: path -> text of the file
    listing,     \* the order in which Path.glob enumerates the folder
    ret,         \* what scan_folder returned: "pending", "None", "generator"
    gen_state,   \* the generator: "none", "created", "suspended", "closed"
    gen_paths,   \* the generator's `paths` argument (file_paths)
    gen_pos,     \* how many paths the generator's for loop has taken
    result,      \* the generator's local `result` (the running accumulator)
    yielded,     \* the triples the consumer has received, in order
    scanned,     \* the paths scan_file has been called on, in order
    last,        \* outcome of the last next(): "none", "yield",
                 \* "SyntaxError", "StopIteration"
    pulls,       \* number of next() calls made by the consumer
    written,     \* what the consumer has combined into a summary it received
    \* --- folding a file set directly and by batches ---
    files,       \* the per-file results to fold
    single,      \* group result folding every file one by one
    batch,       \* batch id -> group result of that batch
    total,       \* group result folding the batch results
    in_single,   \* indices of files already folded into `single`
    in_batch,    \* file index -> batch it was folded into (0: not yet)
    merged,      \* batches already folded into `total`
    \* --- a heap of objects: the combine operation, building a token ---
    heap,        \* object id -> object
    op,          \* the last operation evaluated (`a + b`, FunctionReturn(node)):
                 \* operands, heap before, value
    \* --- scan_text on one text ---
    code,        \* the text given to scan_text
    scan_out,    \* what scan_text did with it
    \* --- scan_text step by step, on syntax trees ---
    frame,       \* the locals of the running call of scan_text, if any
    calls,       \* the calls of scan_text completed: text and outcome
    \* --- the database wrapper (database.py) and one `with db.connect()` ---
    db,          \* the Database object: is_connected, connection, cursor
    conns,       \* the sqlite3 connections made: TRUE while open
    ctx,         \* where the running `with db.connect():` statement is
    log,         \* how each `with` statement so far has ended
    \* --- Database.iterate_table_rows and the consumer of its generator ---
    table,       \* the rows the SELECT selects, in cursor order
    it_args,     \* one_row_a_time, first_col_only, fetch_size
    it_state,    \* the generator: "created", "suspended", "closed"
    cursor_pos,  \* how many rows the cursor has handed out
    rows,        \* the generator's local `rows`: the batch last fetched
    row_pos,     \* how many rows of `rows` the loop over it has taken
    it_items,    \* the items the consumer has received, in order
    it_last,     \* outcome of the last next(): "none", "yield",
                 \* "RuntimeError", "StopIteration"
    \* --- the metrics script (06_compute_metrics.py): the scanner proxy ---
    under_cwd,   \* whether the folders scanned lie under os.getcwd()
    proxy_out,   \* what AnnotationScannerProxy.scan_folder did, if called
    \* --- the metrics script: start_scan ---
    repo_dirs,   \* the entries of the repository root as os.scandir gives them
    csv_existed, \* whether the CSV file existed before the run
    run_state,   \* start_scan: "idle", "loop", "done", "crashed"
    folders,     \* the local `folders`, sorted
    dir_pos,     \* how many folders the for loop has taken
    csv_inited,  \* the local csv_inited
    fieldnames,  \* the fieldnames of the DictWriter, once made
    csv_lines,   \* the lines the run has appended to the CSV file
    \* --- the clone script (05_clone_repos.py) ---
    repo_count,    \* number of repositories of the table (indices 0..repo_count-1)
    progress_file, \* content of the progress file: None (absent or empty) or an index
    last_index,    \* _ProgressFile.last_index of the running process
    clone_state,   \* the process: "idle" (none), "top", "cloning", "ended", "truncated"
    clone_index,   \* the loop variable `index`
    dest_dirs,     \* index -> "none", "partial", "complete": the destination folder
    clone_runs,    \* number of runs started
    ended,         \* indices whose clone attempt has ended, by success or GitError
    recorded,      \* indices that have been written to the progress file
    redone,        \* indices deleted or cloned again after their attempt had ended
    redone_recorded, \* those of them that had been recorded
    torn,          \* whether a run was stopped while rewriting the progress file
    \* --- the fetch script (01_fetch_fill_raw_repo_db.py) ---
    fetch_state,   \* fetch_pages_aiter: "idle", "next", "request", "stopped"
    ctx_page,      \* _LoopContext.page: a PageEnum member or a QueryPage
    page_num,      \* _LoopContext.page_num
    last_page,     \* _LoopContext.last_page
    ranged_params, \* _LoopContext.ranged_params, dates counted in days
    clock,         \* the current time, in days on the same scale
    payload,       \* the payload the for loop holds: None before the first
    attempt,       \* turns of the retry loop taken for this payload
    \* --- the sampling script (04_sample_filtered_db.py) ---
    tables,        \* the tables of the database: name -> None (absent) or its rows
    blacklist_arg, \* whether take_repo_samples is given a blacklist table
    sample_size,   \* the argument sample_size
    max_total_repo_size, \* the argument max_total_repo_size
    sample_state,  \* take_repo_samples: "idle", "start", "loop", "drawn", ...
    blacklisted_repo_ids, \* the local of that name
    repos,         \* the local `repos`, a list
    samples,       \* the local `samples`
    total_size,    \* the local `total_size`
    dest_log       \* the statements run on the destination table, in order

walkerVars == <<fs, listing, ret, gen_state, gen_paths, gen_pos, result,
                yielded, scanned, last, pulls, written>>
foldVars == <<files, single, batch, total, in_single, in_batch, merged>>
heapVars == <<heap, op>>
scanVars == <<code, scan_out>>
stepVars == <<frame, calls>>
dbVars == <<db, conns, ctx, log>>
rowsVars == <<table, it_args, it_state, cursor_pos, rows, row_pos, it_items, it_last>>
proxyVars == <<under_cwd, proxy_out>>
metricsVars == <<repo_dirs, csv_existed, run_state, folders, dir_pos, csv_inited,
                fieldnames, csv_lines>>
cloneVars == <<repo_count, progress_file, last_index, clone_state, clone_index,
              dest_dirs, clone_runs, ended, recorded, redone, redone_recorded, torn>>
fetchVars == <<fetch_state, ctx_page, page_num, last_page, ranged_params, clock,
              payload, attempt>>
sampleVars == <<tables, blacklist_arg, sample_size, max_total_repo_size, sample_state,
               blacklisted_repo_ids, repos, samples, total_size, dest_log>>
scriptVars == <<rowsVars, proxyVars, metricsVars, cloneVars, fetchVars, sampleVars>>
vars == <<walkerVars, foldVars, heapVars, scanVars, stepVars, dbVars, scriptVars>>

-----------------------------------------------------------------------------
(* Bounds of the model.                                                    *)

MaxFiles == 3      \* files in the scanned folder / in the folded file set
MaxNodes == 3      \* syntax-tree nodes of a text given to scan_text alone
MaxBatches == 2    \* batches a file set is partitioned into
MaxCombines == 3   \* combine operations applied to the heap

-----------------------------------------------------------------------------
(* Generic helpers.                                                        *)

Range(s) == {s[i] : i \in 1..Len(s)}

\* all sequences without repetition that enumerate the set S
Perms(S) == {s \in [1..Cardinality(S) -> S] : Range(s) = S}

\* sequences over S of length at most n
SeqsUpTo(S, n) == UNION {[1..k -> S] : k \in 0..n}

RECURSIVE SumSeq(_)
SumSeq(s) == IF s = <<>> THEN 0 ELSE Head(s) + SumSeq(Tail(s))

-----------------------------------------------------------------------------
(* Python values: Optional[...] and the outcome of a call.                 *)

PyNone == <<>>                  \* None
Some(v) == <<v>>                \* a value that is not None
IsNone(o) == o = PyNone

Returned(v) == [exc |-> "", value |-> Some(v)]      \* the call returned v
Raised(e) == [exc |-> e, value |-> PyNone]          \* the call raised e

-----------------------------------------------------------------------------
(* Syntax trees.  A text either fails to parse or parses to a tree; the    *)
(* tree is kept as the sequence of nodes in the order ast.walk yields      *)
(* them.  A node has its class and the two optional slots the scanner      *)
(* reads: `annotation` (AnnAssign, arg) and `returns` (function defs),     *)
(* each holding the unparsed expression text.                              *)

AnnTexts == {"int", "None"}     \* annotation expressions, as unparsed text

Node(type, annotation, returns) ==
    [type |-> type, annotation |-> annotation, returns |-> returns]

OptAnn == {PyNone} \cup {Some(t) : t \in AnnTexts}

Nodes ==
         {Node("Assign", PyNone, PyNone), Node("Expr", PyNone, PyNone)}
    \cup {Node("AnnAssign", Some(t), PyNone) : t \in AnnTexts}
    \cup {Node("arg", a, PyNone) : a \in OptAnn}
    \cup {Node(d, PyNone, r) : d \in {"FunctionDef", "AsyncFunctionDef"}, r \in OptAnn}

Text(syntax_ok, nodes) == [syntax_ok |-> syntax_ok, nodes |-> nodes]

\* a text that is not valid Python
BadText == Text(FALSE, <<>>)

-----------------------------------------------------------------------------
(* Tokens (Assignment, FunctionParameter, FunctionReturn).                 *)

Token(kind, is_annotated, annotated_text) ==
    [kind |-> kind, is_annotated |-> is_annotated, annotated_text |-> annotated_text]

\* an Assignment that takes every binding for a plain one
Assignment_plain(node) == Token("Assignment", FALSE, PyNone)

Assignment(node) ==
    IF node.type = "AnnAssign"
    THEN Token("Assignment", TRUE, node.annotation)
    ELSE Token("Assignment", FALSE, PyNone)

\* a FunctionParameter with the test for the annotation turned round
FunctionParameter_inverted(node) ==
    IF ~IsNone(node.annotation)
    THEN Token("FunctionParameter", FALSE, PyNone)
    ELSE Token("FunctionParameter", TRUE, node.annotation)

FunctionParameter(node) ==
    IF IsNone(node.annotation)
    THEN Token("FunctionParameter", FALSE, PyNone)
    ELSE Token("FunctionParameter", TRUE, node.annotation)

\* a FunctionReturn that sets the flag and forgets the text
FunctionReturn_flag_only(node) ==
    IF IsNone(node.returns)
    THEN Token("FunctionReturn", FALSE, PyNone)
    ELSE Token("FunctionReturn", TRUE, PyNone)

FunctionReturn(node) ==
    IF IsNone(node.returns)
    THEN Token("FunctionReturn", FALSE, PyNone)
    ELSE Token("FunctionReturn", TRUE, node.returns)

-----------------------------------------------------------------------------
(* The nine counters (AnnotationScanStatsBase) and the per-file result.    *)

Fields == {"total_assign_count", "annotated_assign_count", "unannotated_assign_count",
           "total_func_params_count", "annotated_func_params_count",
           "unannotated_func_params_count", "total_func_returns_count",
           "annotated_func_returns_count", "unannotated_func_returns_count"}

\* the nine counters of a result, whatever else it carries
Stats(r) == [f \in Fields |-> r[f]]

\* a count that forgets the is_annotated filter
_count_annotated_unfiltered(anno_items) == Len(anno_items)

_count_annotated(anno_items) ==
    Len(SelectSeq(anno_items, LAMBDA item : item.is_annotated))

\* AnnotationScanResult.__init__ with _init_compute_stats
AnnotationScanResult(assignments, func_params, func_returns) ==
    LET total_assignments == Len(assignments)
        annotated_assignments == _count_annotated(assignments)
        unannotated_assignments == total_assignments - annotated_assignments
        total_func_params == Len(func_params)
        annotated_func_params == _count_annotated(func_params)
        unannotated_func_params == total_func_params - annotated_func_params
        total_func_returns == Len(func_returns)
        annotated_func_returns == _count_annotated(func_returns)
        unannotated_func_returns == total_func_returns - annotated_func_returns
    IN  [assignments |-> assignments,
         func_params |-> func_params,
         func_returns |-> func_returns,
         total_assign_count |-> total_assignments,
         annotated_assign_count |-> annotated_assignments,
         unannotated_assign_count |-> unannotated_assignments,
         total_func_params_count |-> total_func_params,
         annotated_func_params_count |-> annotated_func_params,
         unannotated_func_params_count |-> unannotated_func_params,
         total_func_returns_count |-> total_func_returns,
         annotated_func_returns_count |-> annotated_func_returns,
         unannotated_func_returns_count |-> unannotated_func_returns]

\* map f over a sequence
MapSeq(f(_), s) == [i \in 1..Len(s) |-> f(s[i])]

\* a scan that takes a text that does not parse for an empty tree
scan_text_lenient(text) == Returned(AnnotationScanResult(<<>>, <<>>, <<>>))

\* AnnotationScanner.scan_text
scan_text(text) ==
    IF ~text.syntax_ok
    THEN Raised("SyntaxError")
    ELSE LET walk == text.nodes
             assignments ==
                 MapSeq(Assignment,
                        SelectSeq(walk, LAMBDA n : n.type \in {"AnnAssign", "Assign"}))
             func_params ==
                 MapSeq(FunctionParameter, SelectSeq(walk, LAMBDA n : n.type = "arg"))
             func_returns ==
                 MapSeq(FunctionReturn,
                        SelectSeq(walk, LAMBDA n : n.type \in {"FunctionDef", "AsyncFunctionDef"}))
         IN  Returned(AnnotationScanResult(assignments, func_params, func_returns))

\* AnnotationScanner.scan_file: decode the file (never raises), then scan_text
scan_file(text) == scan_text(text)

-----------------------------------------------------------------------------
(* The group result (AnnotationScanGroupResult).                           *)

\* a constructor that starts the counters at one
AnnotationScanGroupResult_ones == [f \in Fields |-> 1]

\* AnnotationScanGroupResult.__init__
AnnotationScanGroupResult == [f \in Fields |-> 0]

\* an _add_result that replaces the counters of self by those of the operand
_add_result_overwrite(self, res) == [f \in Fields |-> res[f]]

\* AnnotationScanGroupResult._add_result: the new counters of self.  Each
\* field is read from self and from the operand before it is written, also
\* when the operand is self.
_add_result(self, res) == [f \in Fields |-> self[f] + res[f]]

\* Objects on the heap: a group result has the nine counters as its
\* attributes, a per-file result the three token lists as well.  `adds`
\* counts the operands added into a group result since its construction.
GroupObject(counters) ==
    [cls |-> "AnnotationScanGroupResult", attrs |-> counters, adds |-> 0]
FileObject(res) == [cls |-> "AnnotationScanResult", attrs |-> res, adds |-> 0]

\* an __add__ that leaves self alone and returns the sum as a new object
add_as_new_object(h, a, b) ==
    LET new == Len(h) + 1
    IN  [heap |-> Append(h, [GroupObject(_add_result(h[a].attrs, h[b].attrs))
                                EXCEPT !.adds = h[a].adds + 1]),
         value |-> new]

\* AnnotationScanGroupResult.__add__ (also `a += b`) on heap h, a and b
\* being references: the heap afterwards and the reference returned
add(h, a, b) ==
    [heap |-> [h EXCEPT ![a].attrs = _add_result(h[a].attrs, h[b].attrs),
                        ![a].adds = @ + 1],
     value |-> a]

-----------------------------------------------------------------------------
(* Values the variables of one part keep while another part runs.          *)

WalkerIdle ==
    /\ fs = <<>> /\ listing = <<>> /\ ret = "pending" /\ gen_state = "none"
    /\ gen_paths = <<>> /\ gen_pos = 0 /\ result = AnnotationScanGroupResult
    /\ yielded = <<>> /\ scanned = <<>> /\ last = "none" /\ pulls = 0
    /\ written = <<>>

FoldIdle ==
    /\ files = <<>> /\ single = AnnotationScanGroupResult /\ batch = <<>>
    /\ total = AnnotationScanGroupResult /\ in_single = {} /\ in_batch = <<>>
    /\ merged = {}

HeapIdle == heap = <<>> /\ op = PyNone

ScanIdle == code = BadText /\ scan_out = PyNone

StepIdle == frame = PyNone /\ calls = <<>>

DbIdle ==
    /\ db = [is_connected |-> FALSE, connection |-> PyNone, cursor |-> PyNone]
    /\ conns = <<>> /\ ctx = "outside" /\ log = <<>>

RowsIdle ==
    /\ table = <<>> /\ it_args = PyNone /\ it_state = "closed" /\ cursor_pos = 0
    /\ rows = PyNone /\ row_pos = 0 /\ it_items = <<>> /\ it_last = "none"

ProxyIdle ==
    /\ under_cwd = TRUE /\ proxy_out = PyNone

MetricsIdle ==
    /\ repo_dirs = <<>> /\ csv_existed = FALSE /\ run_state = "idle" /\ folders = <<>>
    /\ dir_pos = 0 /\ csv_inited = FALSE /\ fieldnames = {} /\ csv_lines = <<>>

CloneIdle ==
    /\ repo_count = 0 /\ progress_file = PyNone /\ last_index = -1
    /\ clone_state = "idle" /\ clone_index = 0 /\ dest_dirs = <<>> /\ clone_runs = 0
    /\ ended = {} /\ recorded = {} /\ redone = {} /\ redone_recorded = {}
    /\ torn = FALSE

FetchIdle ==
    /\ fetch_state = "idle" /\ ctx_page = PyNone /\ page_num = 1 /\ last_page = PyNone
    /\ ranged_params = PyNone /\ clock = 0 /\ payload = PyNone /\ attempt = 0

SampleIdle ==
    /\ tables = <<>> /\ blacklist_arg = FALSE /\ sample_size = 0
    /\ max_total_repo_size = 0 /\ sample_state = "idle"
    /\ blacklisted_repo_ids = {} /\ repos = <<>> /\ samples = <<>> /\ total_size = 0
    /\ dest_log = <<>>

ScriptIdle ==
    RowsIdle /\ ProxyIdle /\ MetricsIdle /\ CloneIdle /\ FetchIdle /\ SampleIdle

-----------------------------------------------------------------------------
(* scan_text applied to one text.                                          *)

\* the texts scan_text is given: invalid ones, and trees of up to MaxNodes nodes
Texts == {BadText} \cup {Text(TRUE, w) : w \in SeqsUpTo(Nodes, MaxNodes)}

InitScan ==
    /\ code \in Texts
    /\ scan_out = PyNone
    /\ WalkerIdle /\ FoldIdle /\ HeapIdle /\ StepIdle /\ DbIdle /\ ScriptIdle

\* res = AnnotationScanner.scan_text(code)
ScanText ==
    /\ scan_out = PyNone
    /\ scan_out' = Some(scan_text(code))
    /\ UNCHANGED <<code, walkerVars, foldVars, heapVars, stepVars, dbVars, scriptVars>>

NextScan == ScanText

SpecScan == InitScan /\ [][NextScan]_vars

-----------------------------------------------------------------------------
(* Natural order of paths: humansorted(...) of natsort, i.e. natsorted     *)
(* with alg=ns.LOCALE, as it runs in the interpreter's default "C"         *)
(* collation (the scripts never call setlocale).  natsort sorts a Path by  *)
(* str(path); a path is the sequence of the characters of that string.     *)

Digits == {"0", "1", "2"}

IsDigit(c) == c \in Digits

DigitVal(c) == CASE c = "0" -> 0 [] c = "1" -> 1 [] c = "2" -> 2

\* code point of a character
Ord(c) ==
    CASE c = "." -> 46 [] c = "0" -> 48 [] c = "1" -> 49 [] c = "2" -> 50
      [] c = "@" -> 64 [] c = "F" -> 70 [] c = "P" -> 80 [] c = "T" -> 84 [] c = "X" -> 88
      [] c = "Y" -> 89 [] c = "f" -> 102 [] c = "p" -> 112 [] c = "t" -> 116
      [] c = "x" -> 120 [] c = "y" -> 121

\* str.lower of one character
lower(c) ==
    CASE c = "F" -> "f" [] c = "P" -> "p" [] c = "T" -> "t" [] c = "X" -> "x"
      [] c = "Y" -> "y" [] OTHER -> c

\* str.swapcase of one character
swapcase(c) ==
    CASE c = "F" -> "f" [] c = "P" -> "p" [] c = "T" -> "t" [] c = "X" -> "x"
      [] c = "Y" -> "y" [] c = "f" -> "F" [] c = "p" -> "P" [] c = "t" -> "T"
      [] c = "x" -> "X" [] c = "y" -> "Y" [] OTHER -> c

\* int() of a run of digits
RECURSIVE int(_)
int(ds) == IF ds = <<>> THEN 0
           ELSE 10 * int(SubSeq(ds, 1, Len(ds) - 1)) + DigitVal(ds[Len(ds)])

\* re.split on ([0-9]+), empty strings dropped: maximal runs of digits and
\* of other characters, in order
RECURSIVE SplitRuns(_, _)
SplitRuns(s, runs) ==
    IF s = <<>> THEN runs
    ELSE LET c == Head(s)
             n == Len(runs)
         IN  IF n > 0 /\ IsDigit(runs[n][1]) = IsDigit(c)
             THEN SplitRuns(Tail(s), [runs EXCEPT ![n] = Append(@, c)])
             ELSE SplitRuns(Tail(s), Append(runs, <<c>>))

\* groupletters: every character preceded by its lower-case form, as code points
RECURSIVE groupletters(_)
groupletters(run) ==
    IF run = <<>> THEN <<>>
    ELSE <<Ord(lower(Head(run))), Ord(Head(run))>> \o groupletters(Tail(run))

TextPart(codes) == [num |-> FALSE, n |-> 0, t |-> codes]
NumPart(n) == [num |-> TRUE, n |-> n, t |-> <<>>]

\* a key that compares the string as it is, digits as characters
natsort_key_plain(path) ==
    <<[num |-> FALSE, n |-> 0, t |-> MapSeq(Ord, path)]>>

\* the key natsort gives a string: the case of the input swapped, split in
\* runs, digit runs as integers and the other runs letter-grouped, and an
\* empty text part in front when the string starts with a digit
natsort_key(path) ==
    LET runs == SplitRuns(MapSeq(swapcase, path), <<>>)
        parts == [i \in 1..Len(runs) |->
                    IF IsDigit(runs[i][1]) THEN NumPart(int(runs[i]))
                    ELSE TextPart(groupletters(runs[i]))]
    IN  IF Len(parts) > 0 /\ parts[1].num THEN <<TextPart(<<>>)>> \o parts ELSE parts

\* order of two sequences of code points (str < str)
RECURSIVE CodesLess(_, _)
CodesLess(a, b) ==
    IF b = <<>> THEN FALSE
    ELSE IF a = <<>> THEN TRUE
    ELSE IF Head(a) # Head(b) THEN Head(a) < Head(b)
    ELSE CodesLess(Tail(a), Tail(b))

PartLess(x, y) == IF x.num THEN x.n < y.n ELSE CodesLess(x.t, y.t)

\* order of two keys (tuple < tuple); parts at the same index are of the same kind
RECURSIVE KeyLess(_, _)
KeyLess(k1, k2) ==
    IF k2 = <<>> THEN FALSE
    ELSE IF k1 = <<>> THEN TRUE
    ELSE IF Head(k1) # Head(k2) THEN PartLess(Head(k1), Head(k2))
    ELSE KeyLess(Tail(k1), Tail(k2))

\* x put into the sorted sequence s behind every element not greater than it
InsertSorted(s, x) ==
    LET above == {i \in 1..Len(s) : KeyLess(natsort_key(x), natsort_key(s[i]))}
        at == IF above = {} THEN Len(s) + 1
              ELSE CHOOSE i \in above : \A j \in above : i <= j
    IN  SubSeq(s, 1, at - 1) \o <<x>> \o SubSeq(s, at, Len(s))

\* sorted(..., key=natsort_key): a stable sort
RECURSIVE SortedFrom(_, _)
SortedFrom(s, done) ==
    IF s = <<>> THEN done ELSE SortedFrom(Tail(s), InsertSorted(done, Head(s)))

humansorted(paths) == SortedFrom(paths, <<>>)

-----------------------------------------------------------------------------
(* The corpus walker.                                                      *)

\* the paths a folder may hold
PathSeq == << <<"f", "1", ".", "p", "y">>,
              <<"f", "2", ".", "p", "y">>,
              <<"f", "1", "0", ".", "p", "y">>,
              <<"f", "0", "1", ".", "p", "y">>,
              <<"F", "1", ".", "p", "y">>,
              <<"f", "1", ".", "t", "x", "t">> >>

PathPool == Range(PathSeq)

\* the texts a Python file of the folder may hold:
\*   not valid Python;
\*   nothing annotatable (an expression statement);
\*   a: int = 1, b = 2, c = 3, def foo(bar: int): ..., async def hmm() -> None: ...
FileTexts ==
    { BadText,
      Text(TRUE, <<Node("Expr", PyNone, PyNone)>>),
      Text(TRUE, <<Node("AnnAssign", Some("int"), PyNone),
                   Node("Assign", PyNone, PyNone),
                   Node("Assign", PyNone, PyNone),
                   Node("FunctionDef", PyNone, PyNone),
                   Node("AsyncFunctionDef", PyNone, Some("None")),
                   Node("arg", Some("int"), PyNone)>>) }

\* the glob "**/*.py"
glob_match(path) ==
    Len(path) >= 3 /\ SubSeq(path, Len(path) - 2, Len(path)) = <<".", "p", "y">>

\* folder_path.glob(glob): the matching paths, as the folder enumerates them
glob(order) == SelectSeq(order, glob_match)

\* a scan_folder without the test for an empty list of paths
scan_folder_unchecked(order) == Some(humansorted(glob(order)))

\* AnnotationScanner.scan_folder: None, or the generator scan_files(file_paths),
\* which has not run yet
scan_folder(order) ==
    LET file_paths == humansorted(glob(order))
    IN  IF Len(file_paths) = 0 THEN PyNone ELSE Some(file_paths)

Triple(summary, file_path, file_result) ==
    [summary |-> summary, file_path |-> file_path, file_result |-> file_result]

\* a scan_files whose loop starts a new accumulator for every file
scan_files_next_fresh(g, folder) ==
    IF g.state = "closed" \/ g.pos = Len(g.paths)
    THEN [g |-> [g EXCEPT !.state = "closed"], out |-> Raised("StopIteration"),
          calls |-> <<>>]
    ELSE LET file_path == g.paths[g.pos + 1]
             call == scan_file(folder[file_path])
         IN  IF call.exc # ""
             THEN [g |-> [g EXCEPT !.state = "closed", !.pos = @ + 1],
                   out |-> Raised(call.exc), calls |-> <<file_path>>]
             ELSE LET sum == _add_result(AnnotationScanGroupResult, call.value[1])
                  IN  [g |-> [g EXCEPT !.state = "suspended", !.pos = @ + 1,
                                          !.result = sum],
                       out |-> Returned(Triple(sum, file_path, call.value[1])),
                       calls |-> <<file_path>>]

\* a scan_files that, once over, starts again from the first path
scan_files_next_restart(g, folder) ==
    IF g.state = "closed" \/ g.pos = Len(g.paths)
    THEN [g |-> [g EXCEPT !.state = "created", !.pos = 0],
          out |-> Raised("StopIteration"), calls |-> <<>>]
    ELSE LET acc == IF g.state = "created" THEN AnnotationScanGroupResult
                    ELSE g.result
             file_path == g.paths[g.pos + 1]
             call == scan_file(folder[file_path])
         IN  IF call.exc # ""
             THEN [g |-> [g EXCEPT !.state = "closed", !.pos = @ + 1, !.result = acc],
                   out |-> Raised(call.exc), calls |-> <<file_path>>]
             ELSE LET sum == _add_result(acc, call.value[1])
                  IN  [g |-> [g EXCEPT !.state = "suspended", !.pos = @ + 1,
                                          !.result = sum],
                       out |-> Returned(Triple(sum, file_path, call.value[1])),
                       calls |-> <<file_path>>]

\* One next() on the generator of scan_files: the body runs from where it
\* is suspended to its next yield, to its end or to an exception.  g is
\* the generator (state, paths, pos, result); the value is the generator
\* afterwards, the outcome of next() and the scan_file call made.  The
\* first element of a yielded triple is the accumulator object; the triple
\* records its counters as they are when it is yielded.
scan_files_next(g, folder) ==
    IF g.state = "closed"
    THEN [g |-> g, out |-> Raised("StopIteration"), calls |-> <<>>]
    ELSE LET acc == IF g.state = "created" THEN AnnotationScanGroupResult
                    ELSE g.result
         IN  IF g.pos = Len(g.paths)
             THEN [g |-> [g EXCEPT !.state = "closed", !.result = acc],
                   out |-> Raised("StopIteration"), calls |-> <<>>]
             ELSE LET file_path == g.paths[g.pos + 1]
                      call == scan_file(folder[file_path])
                  IN  IF call.exc # ""
                      THEN [g |-> [g EXCEPT !.state = "closed", !.pos = @ + 1,
                                              !.result = acc],
                            out |-> Raised(call.exc), calls |-> <<file_path>>]
                      ELSE LET file_result == call.value[1]
                               sum == _add_result(acc, file_result)
                           IN  [g |-> [g EXCEPT !.state = "suspended", !.pos = @ + 1,
                                                   !.result = sum],
                                out |-> Returned(Triple(sum, file_path, file_result)),
                                calls |-> <<file_path>>]

MaxExtraPulls == 1   \* next() calls the consumer makes beyond one per path

\* the folders scanned: up to MaxFiles files; what is not a Python file is
\* never read, and holds some text that is not Python
Folders ==
    LET dirs == {S \in SUBSET PathPool : Cardinality(S) <= MaxFiles}
        texts(path) == IF glob_match(path) THEN FileTexts ELSE {BadText}
    IN  UNION {{f \in [S -> FileTexts] : \A path \in S : f[path] \in texts(path)} : S \in dirs}

Init ==
    /\ fs \in Folders
    /\ listing \in Perms(DOMAIN fs)
    /\ ret = "pending" /\ gen_state = "none" /\ gen_paths = <<>> /\ gen_pos = 0
    /\ result = AnnotationScanGroupResult
    /\ yielded = <<>> /\ scanned = <<>> /\ last = "none" /\ pulls = 0
    /\ written = <<>>
    /\ FoldIdle /\ HeapIdle /\ ScanIdle /\ StepIdle /\ DbIdle /\ ScriptIdle

\* a scan_folder that scans every file at once, before anything is pulled
ScanFolderEager ==
    /\ ret = "pending"
    /\ LET r == scan_folder(listing)
       IN  IF IsNone(r)
           THEN ret' = "None" /\ UNCHANGED <<gen_state, gen_paths, scanned>>
           ELSE /\ ret' = "generator" /\ gen_state' = "created" /\ gen_paths' = r[1]
                /\ scanned' = r[1]
    /\ UNCHANGED <<fs, listing, gen_pos, result, yielded, last, pulls, written>>
    /\ UNCHANGED <<foldVars, heapVars, scanVars, stepVars, dbVars, scriptVars>>

\* gen = AnnotationScanner.scan_folder(folder)
ScanFolder ==
    /\ ret = "pending"
    /\ LET r == scan_folder(listing)
       IN  IF IsNone(r)
           THEN ret' = "None" /\ UNCHANGED <<gen_state, gen_paths>>
           ELSE ret' = "generator" /\ gen_state' = "created" /\ gen_paths' = r[1]
    /\ UNCHANGED <<fs, listing, gen_pos, result, yielded, scanned, last, pulls, written>>
    /\ UNCHANGED <<foldVars, heapVars, scanVars, stepVars, dbVars, scriptVars>>

\* the consumer calls next(gen)
Pull ==
    /\ ret = "generator"
    /\ pulls < Len(gen_paths) + MaxExtraPulls
    /\ LET step == scan_files_next([state |-> gen_state, paths |-> gen_paths,
                                    pos |-> gen_pos, result |-> result], fs)
       IN  /\ gen_state' = step.g.state
           /\ gen_pos' = step.g.pos
           /\ result' = step.g.result
           /\ scanned' = scanned \o step.calls
           /\ yielded' = yielded \o step.out.value
           /\ last' = IF step.out.exc = "" THEN "yield" ELSE step.out.exc
    /\ pulls' = pulls + 1
    /\ UNCHANGED <<fs, listing, ret, gen_paths, written>>
    /\ UNCHANGED <<foldVars, heapVars, scanVars, stepVars, dbVars, scriptVars>>

Next == ScanFolder \/ Pull

Spec == Init /\ [][Next]_vars


-----------------------------------------------------------------------------
(* The corpus walker with a consumer that writes.  The first element of    *)
(* every triple is the generator's `result` object itself, not a copy, so  *)
(* that a combine the consumer applies to a summary it has received is     *)
(* applied to the accumulator of the walker.                               *)

MaxWrites == 2      \* combines the consumer applies to a received summary

\* folders of up to three Python files
SmallFolders == {f \in Folders : DOMAIN f \subseteq {PathSeq[k] : k \in 1..3}}

InitShare ==
    /\ fs \in SmallFolders
    /\ listing \in Perms(DOMAIN fs)
    /\ ret = "pending" /\ gen_state = "none" /\ gen_paths = <<>> /\ gen_pos = 0
    /\ result = AnnotationScanGroupResult
    /\ yielded = <<>> /\ scanned = <<>> /\ last = "none" /\ pulls = 0
    /\ written = <<>>
    /\ FoldIdle /\ HeapIdle /\ ScanIdle /\ StepIdle /\ DbIdle /\ ScriptIdle

\* the consumer evaluates `summary + x` (or `summary += x`) on the summary
\* of a triple it has received, x being the file result of received
\* triple k or, for k = 0, the summary itself: __add__ adds in place, and
\* the object is the accumulator of the walker
ConsumerCombine(k) ==
    /\ ret = "generator" /\ yielded # <<>>
    /\ Len(written) < MaxWrites
    /\ k \in 0..Len(yielded)
    /\ LET objects == IF k = 0 THEN <<GroupObject(result)>>
                      ELSE <<GroupObject(result), FileObject(yielded[k].file_result)>>
           x == IF k = 0 THEN 1 ELSE 2
           sum == add(objects, 1, x)
       IN  /\ result' = sum.heap[sum.value].attrs
           /\ written' = Append(written, Stats(objects[x].attrs))
    /\ UNCHANGED <<fs, listing, ret, gen_state, gen_paths, gen_pos, yielded, scanned,
                   last, pulls>>
    /\ UNCHANGED <<foldVars, heapVars, scanVars, stepVars, dbVars, scriptVars>>

NextShare ==
    \/ ScanFolder
    \/ Pull
    \/ \E k \in 0..MaxFiles : ConsumerCombine(k)

SpecShare == InitShare /\ [][NextShare]_vars

-----------------------------------------------------------------------------
(* Results folded by the two algebraic parts: those of a few texts.        *)

\*   nothing annotatable;
\*   a: int = 1, b = 2, c = 3, def foo(bar: int): ..., async def hmm() -> None: ...;
\*   x = 1, lambda y: y
ResultPool ==
    {scan_text(t).value[1] : t \in
        {t \in FileTexts : t.syntax_ok}
        \cup {Text(TRUE, <<Node("Assign", PyNone, PyNone), Node("arg", PyNone, PyNone)>>)}}

-----------------------------------------------------------------------------
(* The combine operation applied to objects of a heap: two group results   *)
(* and two per-file results, any group result as the left operand and any  *)
(* object as the right one.                                                *)

GroupRefs == {1, 2}     \* references of the two group results
FileRefs == {3, 4}      \* references of the two per-file results

InitHeap ==
    /\ \E r1, r2 \in ResultPool :
          heap = <<GroupObject(AnnotationScanGroupResult),
                   GroupObject(AnnotationScanGroupResult),
                   FileObject(r1), FileObject(r2)>>
    /\ op = PyNone
    /\ WalkerIdle /\ FoldIdle /\ ScanIdle /\ StepIdle /\ DbIdle /\ ScriptIdle

\* number of combine operations done
NumOps == IF op = PyNone THEN 0 ELSE op[1].n

\* value = a + b
Combine(a, b) ==
    /\ NumOps < MaxCombines
    /\ LET r == add(heap, a, b)
       IN  /\ heap' = r.heap
           /\ op' = Some([a |-> a, b |-> b, before |-> heap, value |-> r.value,
                          n |-> NumOps + 1])
    /\ UNCHANGED <<walkerVars, foldVars, scanVars, stepVars, dbVars, scriptVars>>

NextHeap == \E a \in GroupRefs, b \in GroupRefs \cup FileRefs : Combine(a, b)

SpecHeap == InitHeap /\ [][NextHeap]_vars


-----------------------------------------------------------------------------
(* One file set folded twice: file by file into one fresh group result,    *)
(* and by batches, each batch into its own fresh group result and the      *)
(* batch results into another fresh one.  The files are taken in any       *)
(* order, each is put into any batch still open, and the batches are       *)
(* folded in any order.  The two folds are separate runs over the same     *)
(* files: the direct one is run first, then the one by batches.            *)

Batches == 1..MaxBatches

InitFold ==
    /\ files \in UNION {[1..n -> ResultPool] : n \in 1..MaxFiles}
    /\ single = AnnotationScanGroupResult
    /\ batch = [b \in Batches |-> AnnotationScanGroupResult]
    /\ total = AnnotationScanGroupResult
    /\ in_single = {}
    /\ in_batch = [i \in DOMAIN files |-> 0]
    /\ merged = {}
    /\ WalkerIdle /\ HeapIdle /\ ScanIdle /\ StepIdle /\ DbIdle /\ ScriptIdle

\* single += files[i]
FoldSingle(i) ==
    /\ i \notin in_single
    /\ single' = _add_result(single, files[i])
    /\ in_single' = in_single \cup {i}
    /\ UNCHANGED <<files, batch, total, in_batch, merged>>
    /\ UNCHANGED <<walkerVars, heapVars, scanVars, stepVars, dbVars, scriptVars>>

\* batch[b] += files[i]
FoldBatch(i, b) ==
    /\ in_single = DOMAIN files
    /\ in_batch[i] = 0 /\ b \notin merged
    /\ batch' = [batch EXCEPT ![b] = _add_result(@, files[i])]
    /\ in_batch' = [in_batch EXCEPT ![i] = b]
    /\ UNCHANGED <<files, single, total, in_single, merged>>
    /\ UNCHANGED <<walkerVars, heapVars, scanVars, stepVars, dbVars, scriptVars>>

\* total += batch[b], which closes batch b
MergeBatch(b) ==
    /\ in_single = DOMAIN files
    /\ b \notin merged
    /\ total' = _add_result(total, batch[b])
    /\ merged' = merged \cup {b}
    /\ UNCHANGED <<files, single, batch, in_single, in_batch>>
    /\ UNCHANGED <<walkerVars, heapVars, scanVars, stepVars, dbVars, scriptVars>>

NextFold ==
    \/ \E i \in DOMAIN files : FoldSingle(i)
    \/ \E i \in DOMAIN files, b \in Batches : FoldBatch(i, b)
    \/ \E b \in Batches : MergeBatch(b)

SpecFold == InitFold /\ [][NextFold]_vars


-----------------------------------------------------------------------------
(* Syntax trees with their structure.  A tree is the sequence of its       *)
(* nodes, every node behind its parent and the children of a node in the   *)
(* order ast.iter_child_nodes yields them (the order of the parent's       *)
(* _fields); a node is known by its index, the root (the Module) is 1.     *)
(* Each entry has the node, the index of its parent and the field of the   *)
(* parent that holds it.  Expression nodes that hold nothing the scanner   *)
(* reads (constants, names that are read, operators, the annotation        *)
(* expressions themselves) are left out; the names and tuples an           *)
(* assignment binds are kept.                                              *)

MaxTreeNodes == 4   \* nodes of a syntax tree, the Module included

TreeNode(node, parent, field) == [node |-> node, parent |-> parent, field |-> field]

Plain(type) == Node(type, PyNone, PyNone)

\* the annotation slots of the nodes of a tree: empty, or the text "int"
TreeAnn == {PyNone, Some("int")}

FunctionDefs == {"FunctionDef", "AsyncFunctionDef"}

\* statements: class and function definitions, a = ..., a: int = ...,
\* a += ..., and an expression statement
Stmts ==
         {Plain(t) : t \in {"ClassDef", "Assign", "AugAssign", "Expr"}}
    \cup {Node("AnnAssign", Some("int"), PyNone)}
    \cup {Node(d, PyNone, r) : d \in FunctionDefs, r \in TreeAnn}

Args == {Node("arg", a, PyNone) : a \in TreeAnn}

\* the fields of a node class that hold child nodes, in the order of _fields
ChildFields(type) ==
    CASE type \in {"Module", "ClassDef"} -> <<"body">>
      [] type \in FunctionDefs -> <<"args", "body">>
      [] type = "Lambda" -> <<"args">>
      [] type = "arguments" -> <<"posonlyargs", "args", "vararg", "kwonlyargs", "kwarg">>
      [] type = "Assign" -> <<"targets", "value">>
      [] type = "Tuple" -> <<"elts">>
      [] type = "Expr" -> <<"value">>
      [] OTHER -> <<>>

\* the nodes a field of a node of this class may hold
ChildNodes(type, field) ==
    CASE field = "body" -> Stmts
      [] field = "args" /\ type # "arguments" -> {Plain("arguments")}
      [] type = "arguments" -> Args
      [] field = "targets" -> {Plain("Name"), Plain("Tuple")}
      [] field = "elts" -> {Plain("Name")}
      [] field = "value" -> {Plain("Lambda")}

\* position of a field among the fields of a node class
FieldIndex(type, field) ==
    CHOOSE k \in 1..Len(ChildFields(type)) : ChildFields(type)[k] = field

\* whether a field of a node of this class holds a single node
IsSingle(type, field) ==
    \/ field \in {"vararg", "kwarg", "value"}
    \/ field = "args" /\ type # "arguments"

\* the numbers of a set in increasing order
RECURSIVE InOrder(_)
InOrder(S) == IF S = {} THEN <<>>
              ELSE LET m == CHOOSE x \in S : \A y \in S : x <= y
                   IN  <<m>> \o InOrder(S \ {m})

\* an iter_child_nodes that stops after the first child
iter_child_nodes_first(tree, i) ==
    LET kids == {j \in 1..Len(tree) : tree[j].parent = i}
    IN  IF kids = {} THEN <<>> ELSE <<CHOOSE j \in kids : \A k \in kids : j <= k>>

\* ast.iter_child_nodes: the indices of the children of node i, in order
iter_child_nodes(tree, i) == InOrder({j \in 1..Len(tree) : tree[j].parent = i})

\* the ancestors of node i, itself included
RECURSIVE Ancestors(_, _)
Ancestors(tree, i) == IF i = 0 THEN {} ELSE {i} \cup Ancestors(tree, tree[i].parent)

\* callables, which always have an `arguments` node
Callables == FunctionDefs \cup {"Lambda"}

\* the entries that can follow a tree in the sequence of its nodes: a new
\* last child of the last node or of one of its ancestors, in a field not
\* before the fields of the children already there
NextNodes(tree) ==
    LET n == Len(tree)
        kids(p) == {j \in 1..n : tree[j].parent = p}
        ok(p, f) ==
            LET type == tree[p].node.type
            IN  /\ \A j \in kids(p) :
                      FieldIndex(type, tree[j].field) <= FieldIndex(type, f)
                /\ IsSingle(type, f) => \A j \in kids(p) : tree[j].field # f
    IN  IF tree[n].node.type \in Callables
        THEN {TreeNode(Plain("arguments"), n, "args")}
        ELSE UNION {UNION {{TreeNode(c, p, f) : c \in ChildNodes(tree[p].node.type, f)}
                            : f \in {f \in Range(ChildFields(tree[p].node.type)) : ok(p, f)}}
                     : p \in Ancestors(tree, n)}

\* a tree ast.parse can build: every callable has its arguments
Complete(tree) ==
    \A i \in 1..Len(tree) :
        tree[i].node.type \in Callables =>
            \E j \in 1..Len(tree) : tree[j].parent = i /\ tree[j].field = "args"

\* the sequences of up to n nodes that begin a tree
RECURSIVE TreesUpTo(_)
TreesUpTo(n) ==
    IF n = 1 THEN {<<TreeNode(Plain("Module"), 0, "")>>}
    ELSE LET less == TreesUpTo(n - 1)
         IN  less \cup UNION {{Append(tree, e) : e \in NextNodes(tree)}
                                 : tree \in {t \in less : Len(t) = n - 1}}

\* the trees of up to MaxTreeNodes nodes
SmallTrees == {tree \in TreesUpTo(MaxTreeNodes) : Complete(tree)}

\* class C:
\*     async def m(self, /, a: int, *args, k: int = 0, **kw) -> int:
\*         x = y = 1
\*         def inner(p: int):
\*             z: int = 2
\*             u, v = 1, 2
\*         w = lambda q: q
ClassTree ==
    << TreeNode(Plain("Module"), 0, ""),
       TreeNode(Plain("ClassDef"), 1, "body"),
       TreeNode(Node("AsyncFunctionDef", PyNone, Some("int")), 2, "body"),
       TreeNode(Plain("arguments"), 3, "args"),
       TreeNode(Node("arg", PyNone, PyNone), 4, "posonlyargs"),
       TreeNode(Node("arg", Some("int"), PyNone), 4, "args"),
       TreeNode(Node("arg", PyNone, PyNone), 4, "vararg"),
       TreeNode(Node("arg", Some("int"), PyNone), 4, "kwonlyargs"),
       TreeNode(Node("arg", PyNone, PyNone), 4, "kwarg"),
       TreeNode(Plain("Assign"), 3, "body"),
       TreeNode(Plain("Name"), 10, "targets"),
       TreeNode(Plain("Name"), 10, "targets"),
       TreeNode(Node("FunctionDef", PyNone, PyNone), 3, "body"),
       TreeNode(Plain("arguments"), 13, "args"),
       TreeNode(Node("arg", Some("int"), PyNone), 14, "args"),
       TreeNode(Node("AnnAssign", Some("int"), PyNone), 13, "body"),
       TreeNode(Plain("Assign"), 13, "body"),
       TreeNode(Plain("Tuple"), 17, "targets"),
       TreeNode(Plain("Name"), 18, "elts"),
       TreeNode(Plain("Name"), 18, "elts"),
       TreeNode(Plain("Assign"), 3, "body"),
       TreeNode(Plain("Name"), 21, "targets"),
       TreeNode(Plain("Lambda"), 21, "value"),
       TreeNode(Plain("arguments"), 23, "args"),
       TreeNode(Node("arg", PyNone, PyNone), 24, "args") >>

\* def f(a):
\*     n += 1
\*     def g() -> int:
\*         b: int = a
\* c = 0
\* lambda d: d
ModuleTree ==
    << TreeNode(Plain("Module"), 0, ""),
       TreeNode(Node("FunctionDef", PyNone, PyNone), 1, "body"),
       TreeNode(Plain("arguments"), 2, "args"),
       TreeNode(Node("arg", PyNone, PyNone), 3, "args"),
       TreeNode(Plain("AugAssign"), 2, "body"),
       TreeNode(Node("FunctionDef", PyNone, Some("int")), 2, "body"),
       TreeNode(Plain("arguments"), 6, "args"),
       TreeNode(Node("AnnAssign", Some("int"), PyNone), 6, "body"),
       TreeNode(Plain("Assign"), 1, "body"),
       TreeNode(Plain("Name"), 9, "targets"),
       TreeNode(Plain("Expr"), 1, "body"),
       TreeNode(Plain("Lambda"), 11, "value"),
       TreeNode(Plain("arguments"), 12, "args"),
       TreeNode(Node("arg", PyNone, PyNone), 13, "args") >>

SampleTrees == {ClassTree, ModuleTree}

\* whether a sequence of entries is a tree as described above
RECURSIVE IsTree(_)
IsTree(tree) ==
    IF Len(tree) = 1 THEN tree \in TreesUpTo(1)
    ELSE LET front == SubSeq(tree, 1, Len(tree) - 1)
         IN  IsTree(front) /\ tree[Len(tree)] \in NextNodes(front)

Trees == SmallTrees \cup {tree \in SampleTrees : IsTree(tree) /\ Complete(tree)}

\* a text that parses to the tree
ParsedText(tree) == [syntax_ok |-> TRUE, tree |-> tree]

\* ast.walk from the nodes of todo on (a queue: the first node is taken
\* out, its children are put at the end, and the node is yielded)
RECURSIVE walk_from(_, _)
walk_from(tree, todo) ==
    IF todo = <<>> THEN <<>>
    ELSE <<Head(todo)>> \o walk_from(tree, Tail(todo) \o iter_child_nodes(tree, Head(todo)))

\* ast.walk(tree): the indices of the nodes in the order they are yielded
ast_walk(tree) == walk_from(tree, <<1>>)

\* the text of a tree as scan_text sees it: its nodes in the order of ast.walk
WalkedText(tree) == Text(TRUE, [k \in 1..Len(tree) |-> tree[ast_walk(tree)[k]].node])

-----------------------------------------------------------------------------
(* scan_text step by step: the call makes its three lists and parses the   *)
(* text, the loop takes one node of ast.walk at a time, and the return     *)
(* builds the result from the lists.                                       *)

MaxScans == 3       \* calls of scan_text in one run of repeated scans

\* the locals of a call of scan_text; `visited` lists the nodes ast.walk
\* has yielded
Frame(text, tree, todo, a, p, r, visited) ==
    [code |-> text, tree |-> tree, todo |-> todo, assignments |-> a,
     func_params |-> p, func_returns |-> r, visited |-> visited]

\* a completed call: the text, the outcome and the nodes ast.walk yielded
Call(text, out, visited) == [code |-> text, out |-> out, visited |-> visited]

\* the token lists of the last call that returned, if any
LastLists ==
    LET done == {k \in 1..Len(calls) : calls[k].out.exc = ""}
        k == CHOOSE k \in done : \A j \in done : j <= k
    IN  IF done = {} THEN [a |-> <<>>, p |-> <<>>, r |-> <<>>]
        ELSE [a |-> calls[k].out.value[1].assignments,
              p |-> calls[k].out.value[1].func_params,
              r |-> calls[k].out.value[1].func_returns]

\* a scan_text whose lists live on from one call to the next
ScanTextCallSharedLists(text, limit) ==
    /\ frame = PyNone /\ Len(calls) < limit
    /\ IF ~text.syntax_ok
       THEN calls' = Append(calls, Call(text, Raised("SyntaxError"), <<>>)) /\ frame' = frame
       ELSE /\ frame' = Some(Frame(text, text.tree, <<1>>, LastLists.a, LastLists.p,
                                   LastLists.r, <<>>))
            /\ calls' = calls
    /\ UNCHANGED <<walkerVars, foldVars, heapVars, scanVars, dbVars, scriptVars>>

\* AnnotationScanner.scan_text(text) is called: the three lists are made
\* empty and the text is parsed, which raises if it is not valid Python
ScanTextCall(text, limit) ==
    /\ frame = PyNone /\ Len(calls) < limit
    /\ IF ~text.syntax_ok
       THEN calls' = Append(calls, Call(text, Raised("SyntaxError"), <<>>)) /\ frame' = frame
       ELSE /\ frame' = Some(Frame(text, text.tree, <<1>>, <<>>, <<>>, <<>>, <<>>))
            /\ calls' = calls
    /\ UNCHANGED <<walkerVars, foldVars, heapVars, scanVars, dbVars, scriptVars>>

\* a loop body that knows FunctionDef only
visit_sync_only(f, node) ==
    [f EXCEPT
        !.assignments = IF node.type \in {"AnnAssign", "Assign"}
                        THEN Append(@, Assignment(node)) ELSE @,
        !.func_params = IF node.type = "arg"
                        THEN Append(@, FunctionParameter(node)) ELSE @,
        !.func_returns = IF node.type = "FunctionDef"
                         THEN Append(@, FunctionReturn(node)) ELSE @]

\* the lists after the loop body has run on a node
visit(f, node) ==
    [f EXCEPT
        !.assignments = IF node.type \in {"AnnAssign", "Assign"}
                        THEN Append(@, Assignment(node)) ELSE @,
        !.func_params = IF node.type = "arg"
                        THEN Append(@, FunctionParameter(node)) ELSE @,
        !.func_returns = IF node.type \in {"FunctionDef", "AsyncFunctionDef"}
                         THEN Append(@, FunctionReturn(node)) ELSE @]

\* one turn of `for node in ast.walk(tree)`
ScanTextVisit ==
    /\ frame # PyNone /\ frame[1].todo # <<>>
    /\ LET f == frame[1]
           i == Head(f.todo)
           g == [f EXCEPT !.todo = Tail(@) \o iter_child_nodes(f.tree, i),
                          !.visited = Append(@, i)]
       IN  frame' = Some(visit(g, f.tree[i].node))
    /\ UNCHANGED calls
    /\ UNCHANGED <<walkerVars, foldVars, heapVars, scanVars, dbVars, scriptVars>>

\* the loop is over: return AnnotationScanResult(...)
ScanTextReturn ==
    /\ frame # PyNone /\ frame[1].todo = <<>>
    /\ LET f == frame[1]
       IN  calls' = Append(calls,
               Call(f.code,
                    Returned(AnnotationScanResult(f.assignments, f.func_params,
                                                  f.func_returns)),
                    f.visited))
    /\ frame' = PyNone
    /\ UNCHANGED <<walkerVars, foldVars, heapVars, scanVars, dbVars, scriptVars>>

InitStep ==
    /\ frame = PyNone /\ calls = <<>>
    /\ WalkerIdle /\ FoldIdle /\ HeapIdle /\ ScanIdle /\ DbIdle /\ ScriptIdle

\* one scan of a text: any tree, or a text that is not valid Python
StepTexts == {BadText} \cup {ParsedText(tree) : tree \in Trees}

NextStep ==
    \/ \E text \in StepTexts : ScanTextCall(text, 1)
    \/ ScanTextVisit
    \/ ScanTextReturn

SpecStep == InitStep /\ [][NextStep]_vars

\* repeated scans of a few texts
RescanTexts ==
    {BadText, ParsedText(ModuleTree), ParsedText(ClassTree),
     ParsedText(<<TreeNode(Plain("Module"), 0, "")>>)}

NextRescan ==
    \/ \E text \in RescanTexts : ScanTextCall(text, MaxScans)
    \/ ScanTextVisit
    \/ ScanTextReturn

SpecRescan == InitStep /\ [][NextRescan]_vars

-----------------------------------------------------------------------------
(* The database wrapper of database.py: one Database object and a          *)
(* sequence of `with db.connect():` statements.  connect is a generator    *)
(* under @contextmanager: entering the `with` runs it to its yield (and    *)
(* fails with RuntimeError("generator didn't yield") if it returns         *)
(* first); leaving the body normally resumes it behind the yield; an       *)
(* exception raised in the body is thrown into it at the yield, where      *)
(* nothing catches it, so that it ends there and the exception goes on.    *)

MaxWiths == 4       \* `with db.connect():` statements in one run
MaxStatements == 2  \* statements executed on one connection

\* a sqlite3 connection: whether it is open, and the statements executed
\* and committed on it
Connection(open, executed, committed) ==
    [open |-> open, executed |-> executed, committed |-> committed]

\* Database.__init__
Database == [is_connected |-> FALSE, connection |-> PyNone, cursor |-> PyNone]

\* Database.get_active_cursor
get_active_cursor(self) ==
    IF ~self.is_connected \/ self.cursor = PyNone
    THEN Raised("RuntimeError")
    ELSE Returned(self.cursor[1])

\* Database.get_active_connection
get_active_connection(self) ==
    IF ~self.is_connected \/ self.connection = PyNone
    THEN Raised("RuntimeError")
    ELSE Returned(self.connection[1])

\* Database.connect behind its yield: the connection is closed and the
\* object is reset
connect_exit(self, cs) ==
    [db |-> [self EXCEPT !.is_connected = FALSE, !.cursor = PyNone,
                         !.connection = PyNone],
     conns |-> [cs EXCEPT ![self.connection[1]].open = FALSE]]

InitDb ==
    /\ db = Database /\ conns = <<>> /\ ctx = "outside" /\ log = <<>>
    /\ WalkerIdle /\ FoldIdle /\ HeapIdle /\ ScanIdle /\ StepIdle /\ ScriptIdle

\* `with db.connect():` is entered: connect runs to its yield.  The flag
\* is set before sqlite3.connect is called, which opens the file or raises.
WithEnter(opened) ==
    /\ ctx = "outside" /\ Len(log) < MaxWiths
    /\ IF db.is_connected
       THEN /\ log' = Append(log, "RuntimeError")
            /\ UNCHANGED <<db, conns, ctx>>
       ELSE IF ~opened
       THEN /\ db' = [db EXCEPT !.is_connected = TRUE]
            /\ log' = Append(log, "OperationalError")
            /\ UNCHANGED <<conns, ctx>>
       ELSE LET con == Len(conns) + 1
            IN  /\ conns' = Append(conns, Connection(TRUE, 0, 0))
                /\ db' = [is_connected |-> TRUE, connection |-> Some(con),
                          cursor |-> Some(con)]
                /\ ctx' = "body"
                /\ log' = log
    /\ UNCHANGED <<walkerVars, foldVars, heapVars, scanVars, stepVars, scriptVars>>

\* the body of the `with` completes: connect is resumed behind its yield
WithCompletes ==
    /\ ctx = "body"
    /\ LET r == connect_exit(db, conns)
       IN  db' = r.db /\ conns' = r.conns
    /\ ctx' = "outside"
    /\ log' = Append(log, "completed")
    /\ UNCHANGED <<walkerVars, foldVars, heapVars, scanVars, stepVars, scriptVars>>

\* the body of the `with` raises: the exception is thrown into connect at
\* its yield and leaves it at once; nothing behind the yield is run
WithRaises ==
    /\ ctx = "body"
    /\ ctx' = "outside"
    /\ log' = Append(log, "raised")
    /\ UNCHANGED <<db, conns>>
    /\ UNCHANGED <<walkerVars, foldVars, heapVars, scanVars, stepVars, scriptVars>>

\* a statement is run through the active cursor (create_table, drop_table,
\* vacuum, is_table_exists): self.get_active_cursor().execute(sql), which
\* asks only whether the object holds a cursor, inside a `with` or not
Execute ==
    /\ get_active_cursor(db).exc = ""
    /\ LET con == get_active_cursor(db).value[1]
       IN  /\ conns[con].executed < MaxStatements
           /\ conns' = [conns EXCEPT ![con].executed = @ + 1]
    /\ UNCHANGED <<db, ctx, log>>
    /\ UNCHANGED <<walkerVars, foldVars, heapVars, scanVars, stepVars, scriptVars>>

\* add_table_rows, copy_table: a statement is run and committed
ExecuteCommit ==
    /\ get_active_cursor(db).exc = "" /\ get_active_connection(db).exc = ""
    /\ LET con == get_active_connection(db).value[1]
       IN  /\ conns[con].executed < MaxStatements
           /\ conns' = [conns EXCEPT ![con].executed = @ + 1,
                                     ![con].committed = conns[con].executed + 1]
    /\ UNCHANGED <<db, ctx, log>>
    /\ UNCHANGED <<walkerVars, foldVars, heapVars, scanVars, stepVars, scriptVars>>

NextDb ==
    \/ \E opened \in BOOLEAN : WithEnter(opened)
    \/ WithCompletes
    \/ WithRaises
    \/ Execute
    \/ ExecuteCommit

SpecDb == InitDb /\ [][NextDb]_vars

-----------------------------------------------------------------------------
(* Properties of the per-file result.                                      *)

\* the results scan_text has returned (none, or one)
ScanReturned == {c.value[1] : c \in {c \in Range(scan_out) : c.exc = ""}}

\* number of tokens of a list with is_annotated true
NumAnnotated(tokens) == Cardinality({i \in 1..Len(tokens) : tokens[i].is_annotated})

CategoryCounts(tokens, tot, annotated, unannotated) ==
    /\ tot = Len(tokens)
    /\ annotated = NumAnnotated(tokens)
    /\ unannotated = tot - annotated
    /\ annotated + unannotated = tot
    /\ 0 <= annotated /\ annotated <= tot

\* C4: in every AnnotationScanResult, for each of assignments, parameters
\* and returns, total is the length of the category's token list, annotated
\* the number of its tokens with is_annotated true, and unannotated is
\* total minus annotated, so that annotated + unannotated = total and
\* 0 <= annotated <= total.
C4_CountersMatchLists ==
    \A r \in ScanReturned :
        /\ CategoryCounts(r.assignments, r.total_assign_count,
                          r.annotated_assign_count, r.unannotated_assign_count)
        /\ CategoryCounts(r.func_params, r.total_func_params_count,
                          r.annotated_func_params_count, r.unannotated_func_params_count)
        /\ CategoryCounts(r.func_returns, r.total_func_returns_count,
                          r.annotated_func_returns_count, r.unannotated_func_returns_count)

\* a result with one annotated and one unannotated assignment and an
\* unannotated return
C4_Witness ==
    \E r \in ScanReturned :
        /\ r.total_assign_count = 2 /\ r.annotated_assign_count = 1
        /\ r.unannotated_assign_count = 1
        /\ r.total_func_returns_count = 1 /\ r.unannotated_func_returns_count = 1

\* every token of the three lists of a result
AllTokens(r) == Range(r.assignments) \cup Range(r.func_params) \cup Range(r.func_returns)

\* C14: for every token of every kind that a scan produces, is_annotated
\* is true if and only if annotated_text is not None.
C14_AnnotatedIffText ==
    \A r \in ScanReturned :
        \A token \in AllTokens(r) :
            /\ token.kind \in {"Assignment", "FunctionParameter", "FunctionReturn"}
            /\ token.is_annotated <=> token.annotated_text # PyNone
            /\ token.is_annotated => token.annotated_text \in {Some(a) : a \in AnnTexts}

\* an annotated assignment, a parameter without annotation and a function
\* definition with a return annotation scanned together
C14_Witness ==
    \E r \in ScanReturned :
        /\ Token("Assignment", TRUE, Some("int")) \in AllTokens(r)
        /\ Token("FunctionParameter", FALSE, PyNone) \in AllTokens(r)
        /\ Token("FunctionReturn", TRUE, Some("None")) \in AllTokens(r)

-----------------------------------------------------------------------------
(* Properties of the corpus walker.                                        *)

\* the matched paths of the folder
Matched == {path \in DOMAIN fs : glob_match(path)}

\* counter-wise sum of the nine counters of a sequence of results
SumStats(rs) == [f \in Fields |-> SumSeq([i \in 1..Len(rs) |-> rs[i][f]])]

\* the per-file results of the triples received so far
YieldedResults == [k \in 1..Len(yielded) |-> yielded[k].file_result]

\* C5: the k-th triple produced by scan_files carries the k-th path of the
\* path sequence, the scan result of that path, and a cumulative summary
\* whose nine counters, as read when the triple is produced, are the sums
\* of the counters of the results of paths 1..k; triples come in the order
\* of the path sequence.
C5_TripleIsPathResultAndPrefixSum ==
    /\ Len(yielded) <= Len(gen_paths)
    /\ \A k \in 1..Len(yielded) :
          /\ yielded[k].file_path = gen_paths[k]
          /\ scan_file(fs[gen_paths[k]]).exc = ""
          /\ yielded[k].file_result = scan_file(fs[gen_paths[k]]).value[1]
          /\ yielded[k].summary =
                SumStats([j \in 1..k |-> scan_file(fs[gen_paths[j]]).value[1]])
    /\ last = "yield" => result = yielded[Len(yielded)].summary

\* three triples produced, the first for a file without tokens
C5_Witness ==
    /\ Len(yielded) = 3
    /\ yielded[1].summary.total_assign_count = 0
    /\ yielded[2].summary.total_assign_count = 3
    /\ yielded[3].summary.total_assign_count = 6
    /\ yielded[3].summary.annotated_func_returns_count = 2

\* C6: a file that fails to parse does not end a directory-wide scan: the
\* walker catches the failure and goes on, so that once the sequence is
\* over every matched file that parses has been scanned and has its triple.
C6_ParseFailureIsIsolated ==
    gen_state = "closed" =>
        \A path \in Range(gen_paths) :
            fs[path].syntax_ok =>
                /\ path \in Range(scanned)
                /\ \E k \in 1..Len(yielded) : yielded[k].file_path = path

\* C7: a file whose text does not parse produces no result: scan_file on it
\* raises and returns nothing, no triple is produced for it, and the
\* running accumulator is the sum of the results folded before it.
C7_NoResultForUnparsableFile ==
    /\ \A i \in 1..Len(scanned) :
          ~fs[scanned[i]].syntax_ok =>
              /\ scan_file(fs[scanned[i]]) = Raised("SyntaxError")
              /\ \A k \in 1..Len(yielded) : yielded[k].file_path # scanned[i]
              /\ i = Len(scanned) /\ Len(yielded) = i - 1
              /\ gen_state = "closed"
    /\ \A k \in 1..Len(yielded) : fs[yielded[k].file_path].syntax_ok
    /\ gen_state # "none" => result = SumStats(YieldedResults)

\* the third file failed to parse after two files with tokens were folded
C7_Witness ==
    /\ last = "SyntaxError"
    /\ Len(scanned) = 3 /\ Len(yielded) = 2
    /\ result.total_assign_count = 6

\* C8: scan_folder returns None exactly when no path of the folder matches
\* the glob, and then there is no sequence and no summary at all; when a
\* path matches it returns a generator, whatever the files hold.
C8_NoneIffNoMatch ==
    ret # "pending" =>
        /\ ret = "None" <=> Matched = {}
        /\ ret = "generator" <=> Matched # {}
        /\ ret = "None" => gen_state = "none" /\ yielded = <<>> /\ scanned = <<>>
        /\ ret = "generator" => gen_state # "none" /\ Len(gen_paths) > 0

\* None returned for a folder that holds a file, none matching
C8_Witness == ret = "None" /\ DOMAIN fs # {}

\* position of a path in a sequence of distinct paths
Pos(paths, path) == CHOOSE i \in 1..Len(paths) : paths[i] = path

\* natural order as commonly stated: letters compared without regard to
\* case, digit runs by numeric value
natsort_key_ignorecase(path) ==
    LET runs == SplitRuns(MapSeq(lower, path), <<>>)
        parts == [i \in 1..Len(runs) |->
                    IF IsDigit(runs[i][1]) THEN NumPart(int(runs[i]))
                    ELSE TextPart(MapSeq(Ord, runs[i]))]
    IN  IF Len(parts) > 0 /\ parts[1].num THEN <<TextPart(<<>>)>> \o parts ELSE parts

F1_py == <<"f", "1", ".", "p", "y">>
F2_py == <<"f", "2", ".", "p", "y">>
F10_py == <<"f", "1", "0", ".", "p", "y">>
UpperF1_py == <<"F", "1", ".", "p", "y">>

\* the paths of a folder in one fixed order, whatever the folder's own
\* enumeration: scan_folder gives the same order for every enumeration of
\* a folder exactly when it gives the order it gives for this one
FixedListing == SelectSeq(PathSeq, LAMBDA path : path \in DOMAIN fs)

\* C9 as stated: the paths are visited in case-insensitive natural order
\* (no path is visited before one that this order puts in front of it),
\* and the order of the visit is the same for every order in which the
\* folder can enumerate its files.
C9_CaseInsensitiveOrderForAnyEnumeration ==
    ret = "generator" =>
        /\ \A i, j \in 1..Len(gen_paths) :
              i < j => ~KeyLess(natsort_key_ignorecase(gen_paths[j]),
                                natsort_key_ignorecase(gen_paths[i]))
        /\ scan_folder(FixedListing) = Some(gen_paths)

\* the order of paths: a permutation of the matched paths, non-decreasing
\* in the natsort key, paths of equal key in the folder's enumeration order
NaturalKeyOrder(paths) ==
    /\ Range(paths) = Matched /\ Len(paths) = Cardinality(Matched)
    /\ \A i, j \in 1..Len(paths) :
          i < j =>
             /\ ~KeyLess(natsort_key(paths[j]), natsort_key(paths[i]))
             /\ natsort_key(paths[i]) = natsort_key(paths[j])
                   => Pos(listing, paths[i]) < Pos(listing, paths[j])
             /\ ~(paths[i] = F10_py /\ paths[j] \in {F1_py, F2_py})
             /\ ~(paths[i] = F2_py /\ paths[j] = F1_py)
             /\ ~(paths[i] = UpperF1_py /\ paths[j] \in {F1_py, F2_py, F10_py})

\* C9, amended: the matched paths are visited, each once, in
\* non-decreasing order of their natsort key: digit runs compare by
\* numeric value (f1.py, f2.py, f10.py) and the other runs letter by
\* letter, a lower-case letter before the same letter in upper case, so
\* that a difference of case outranks the numbers behind it (f2.py before
\* F1.py); paths of equal key keep the order in which the folder
\* enumerates them; and when no two matched paths have equal keys the
\* order of the visit is the same for every enumeration order.  The
\* order is that of the path list scan_folder returns with the generator,
\* and the visit follows that list.
C9_NaturalKeyOrderStable ==
    /\ gen_state = "created" =>
          /\ NaturalKeyOrder(gen_paths)
          /\ (\A p, q \in Matched : p # q => natsort_key(p) # natsort_key(q))
                => scan_folder(FixedListing) = Some(gen_paths)
    /\ ret = "generator" =>
          /\ Range(gen_paths) = Matched
          /\ scanned = SubSeq(gen_paths, 1, Len(scanned))

\* f2.py, f10.py, f1.py enumerated in this order and visited as f1.py,
\* f2.py, f10.py
C9_Witness ==
    /\ listing = <<F2_py, F10_py, F1_py>>
    /\ scanned = <<F1_py, F2_py, F10_py>>

\* C10: the walker is driven by the consumer's pulls and scans one file
\* per pull: nothing is scanned before the first pull; the files scanned
\* are always the first paths of the sequence, one for each triple the
\* consumer has received (and beyond these only the one file whose scan
\* raised and ended the sequence); so the scan of path k+1 starts no
\* earlier than pull k+1 and is over when triple k+1 is received.
C10_OneScanPerPull ==
    /\ (ret # "generator" \/ pulls = 0) => scanned = <<>>
    /\ scanned = SubSeq(gen_paths, 1, Len(scanned))
    /\ Len(scanned) <= pulls
    /\ Len(yielded) <= Len(scanned) /\ Len(scanned) <= Len(yielded) + 1
    /\ \A k \in 1..Len(yielded) : scanned[k] = yielded[k].file_path
    /\ Len(scanned) = Len(yielded) + 1 =>
          ~fs[scanned[Len(scanned)]].syntax_ok /\ gen_state = "closed"
    /\ gen_state \in {"created", "suspended"} => Len(scanned) = pulls

\* two triples received of three paths: two files scanned, the third not yet
C10_Witness ==
    /\ Len(gen_paths) = 3 /\ Len(yielded) = 2 /\ pulls = 2
    /\ scanned = SubSeq(gen_paths, 1, 2)
    /\ gen_state = "suspended"

\* C17: along one run of the walker the cumulative summary never
\* decreases: every one of the nine counters of the summary produced at
\* step k+1 is at least its value in the summary produced at step k, no
\* counter is ever negative, and the running accumulator is never below
\* the last summary produced.
C17_SummaryNeverDecreases ==
    /\ \A k \in 1..Len(yielded) : \A f \in Fields :
          /\ yielded[k].summary[f] >= 0
          /\ k < Len(yielded) => yielded[k + 1].summary[f] >= yielded[k].summary[f]
    /\ \A f \in Fields :
          /\ result[f] >= 0
          /\ yielded # <<>> => result[f] >= yielded[Len(yielded)].summary[f]

\* three steps: a file with tokens, one without (the summary stays as it
\* is), and one with tokens again
C17_Witness ==
    /\ Len(yielded) = 3
    /\ yielded[1].summary.total_assign_count = 3
    /\ yielded[2].summary = yielded[1].summary
    /\ yielded[3].summary.total_assign_count = 6
    /\ yielded[3].summary.annotated_func_params_count = 2

\* every matched file of the folder parses
AllParse == \A path \in Matched : fs[path].syntax_ok

\* C18: the sequence scan_files returns is finite and cannot be started
\* again: a pull produces at most one triple and never moves back in the
\* paths; when the sequence ends after every scan succeeded it has
\* produced exactly one triple for each of the n paths; and once it is
\* over, by exhaustion or by a scan that raised out of it, it stays over:
\* every further pull ends in StopIteration, scans nothing and produces
\* nothing.
C18_FiniteNotRestartable ==
    [][ /\ Len(yielded') <= Len(yielded) + 1
        /\ gen_pos' >= gen_pos /\ gen_pos' <= Len(gen_paths')
        /\ (gen_state' = "closed" /\ AllParse) =>
              /\ Len(yielded') = Len(gen_paths')
              /\ \A k \in 1..Len(gen_paths') : yielded'[k].file_path = gen_paths'[k]
        /\ gen_state = "closed" =>
              /\ gen_state' = "closed"
              /\ yielded' = yielded /\ scanned' = scanned
              /\ gen_pos' = gen_pos /\ result' = result
              /\ pulls' # pulls => last' = "StopIteration"
      ]_vars

\* three paths, three triples, and the pull after them found the sequence over
C18_Witness ==
    /\ gen_state = "closed" /\ last = "StopIteration"
    /\ Len(gen_paths) = 3 /\ Len(yielded) = 3 /\ pulls = 4

\* the walker folds the result of one more file into the accumulator
WalkerFolds ==
    /\ pulls' = pulls + 1 /\ Len(yielded') = Len(yielded) + 1
    /\ result' = _add_result(result, yielded'[Len(yielded')].file_result)
    /\ yielded'[Len(yielded')].summary = result'

\* C19 as stated: the counters of the running accumulator change only
\* when the walker folds a file's result into it; nothing the consumer of
\* the triples does changes the walker's running totals.
C19_OnlyTheWalkerWrites ==
    [][result' # result => WalkerFolds]_vars

\* C19, amended: the running accumulator is the only state carried from
\* one walker step to the next, and the walker writes it only by folding
\* one file's result into it at each step; but the summary of every triple
\* is that accumulator itself, so that the consumer can write it too: a
\* combine the consumer applies to a received summary adds into the
\* walker's running totals, the walker's next fold goes on from the
\* changed totals, and every later summary includes them.  The totals
\* are at all times the sum of the file results folded and of what the
\* consumer combined in; the walker is the only writer as long as the
\* consumer only reads.
C19_WalkerFoldsAndConsumerCanWrite ==
    /\ [][result' # result =>
             \/ WalkerFolds /\ written' = written
             \/ /\ Len(written') = Len(written) + 1 /\ yielded # <<>>
                /\ result' = _add_result(result, written'[Len(written')])
                /\ UNCHANGED <<yielded, scanned, pulls, gen_state, gen_pos>>]_vars
    /\ [](gen_state # "none" => result = SumStats(YieldedResults \o written))
    /\ []((written = <<>> /\ last = "yield") => result = yielded[Len(yielded)].summary)

\* the consumer added the first file's result into the first summary, and
\* the summary of the second step holds the result of the first file twice
C19_Witness ==
    /\ Len(yielded) = 2 /\ Len(written) = 1
    /\ yielded[1].summary.total_assign_count = 3
    /\ written[1].total_assign_count = 3
    /\ yielded[2].summary.total_assign_count = 6
    /\ yielded[2].file_result.total_assign_count = 0

-----------------------------------------------------------------------------
(* Properties of the combine operation.                                    *)

\* the combine operations evaluated last (none, or one)
LastOp == Range(op)

\* what combine does to its left operand and to the rest of the heap: the
\* counters of a become the old ones plus those of b, field by field, the
\* value is a itself, no object is created, and every object other than a
\* is as before
CombineAddsInPlace(o) ==
    /\ \A f \in Fields :
          heap[o.a].attrs[f] = o.before[o.a].attrs[f] + o.before[o.b].attrs[f]
    /\ heap[o.a].cls = o.before[o.a].cls
    /\ o.value = o.a
    /\ DOMAIN heap = DOMAIN o.before
    /\ \A x \in DOMAIN heap : x # o.a => heap[x].attrs = o.before[x].attrs

\* C2 as stated: combine(a, b) sets every counter of a to its old value
\* plus b's counter, returns a itself, and leaves b unchanged, for every
\* operand b that is a group result or a per-file result.
C2_CombineLeavesOperandUnchanged ==
    \A o \in LastOp :
        /\ CombineAddsInPlace(o)
        /\ heap[o.b].attrs = o.before[o.b].attrs

\* C2, amended: combine(a, b) sets every counter of a to its old value
\* plus b's counter of the same name (b's token lists play no part),
\* returns a itself, creates no object and changes no object but a; so b
\* is left unchanged unless b is a itself, and a + a doubles the counters
\* of a.
C2_CombineAddsCountersInPlace ==
    \A o \in LastOp :
        /\ CombineAddsInPlace(o)
        /\ o.b # o.a => heap[o.b].attrs = o.before[o.b].attrs
        /\ o.b = o.a =>
              \A f \in Fields : heap[o.b].attrs[f] = 2 * o.before[o.b].attrs[f]

\* a per-file result with tokens added into a group result that already
\* holds counts
C2_Witness ==
    \E o \in LastOp :
        /\ o.b \in FileRefs /\ o.before[o.b].attrs.total_assign_count = 3
        /\ Len(o.before[o.b].attrs.assignments) = 3
        /\ o.before[o.a].attrs.total_assign_count = 2
        /\ heap[o.a].attrs.total_assign_count = 5
        /\ heap[o.a].attrs.annotated_assign_count = 1

\* C3: a freshly constructed group result has all nine counters 0 and is
\* the identity of combine: adding any operand x into it leaves it with
\* exactly x's nine counters.
C3_FreshIsZeroAndIdentity ==
    /\ \A x \in DOMAIN heap :
          (heap[x].cls = "AnnotationScanGroupResult" /\ heap[x].adds = 0)
              => \A f \in Fields : heap[x].attrs[f] = 0
    /\ \A o \in LastOp :
          o.before[o.a].adds = 0 =>
              \A f \in Fields : heap[o.a].attrs[f] = o.before[o.b].attrs[f]

\* a group result holding counts added into a fresh group result
C3_Witness ==
    \E o \in LastOp :
        /\ o.before[o.a].adds = 0
        /\ o.b \in GroupRefs /\ o.b # o.a
        /\ o.before[o.b].attrs.total_assign_count = 4
        /\ heap[o.a].attrs.total_assign_count = 4
        /\ heap[o.a].attrs.total_func_params_count = 2

-----------------------------------------------------------------------------
(* Properties of folding by batches.                                       *)

\* every file is in a batch and every batch holding a file is folded
BatchFoldDone ==
    \A i \in DOMAIN files : in_batch[i] # 0 /\ in_batch[i] \in merged

\* C1: once every file has been folded one by one into a single fresh
\* group result and, by any partition into batches and in any order, into
\* per-batch results that are folded into another fresh group result, the
\* two group results agree on every one of the nine counters (and hold
\* the counter-wise sums over the files).
C1_BatchFoldEqualsSingleFold ==
    (in_single = DOMAIN files /\ BatchFoldDone) =>
        \A f \in Fields :
            /\ total[f] = single[f]
            /\ single[f] = SumSeq([i \in DOMAIN files |-> files[i][f]])

\* three files with tokens folded as a batch of two and a batch of one
C1_Witness ==
    /\ Len(files) = 3 /\ in_single = DOMAIN files /\ BatchFoldDone
    /\ \E b \in Batches : Cardinality({i \in DOMAIN files : in_batch[i] = b}) = 2
    /\ \A i \in DOMAIN files : files[i].total_assign_count > 0
    /\ files[1] # files[2]
    /\ total.total_assign_count >= 5

-----------------------------------------------------------------------------
(* Properties of scan_text on syntax trees.                                *)

\* the calls of scan_text that returned a result
Returns == {c \in Range(calls) : c.out.exc = ""}

\* the nodes of a tree that are of one of the classes
NodesOfType(tree, types) == {i \in 1..Len(tree) : tree[i].node.type \in types}

\* how many times a token is in a list
CountTokens(tokens, token) == Cardinality({k \in 1..Len(tokens) : tokens[k] = token})

\* number of ancestors of a node
Depth(tree, i) == Cardinality(Ancestors(tree, i)) - 1

\* C11: scan_text produces exactly one Assignment token for every Assign
\* and every AnnAssign node of the tree, at any depth and whatever the
\* targets (none for the names and tuples bound, none for an augmented
\* assignment or any other node): as many unannotated tokens, without
\* text, as there are Assign nodes, and for every annotation text as many
\* annotated tokens with that text as there are AnnAssign nodes with it.
C11_OneAssignmentPerBindingStatement ==
    \A c \in Returns :
        LET tree == c.code.tree
            tokens == c.out.value[1].assignments
        IN  /\ Len(tokens) = Cardinality(NodesOfType(tree, {"Assign", "AnnAssign"}))
            /\ \A k \in 1..Len(tokens) : tokens[k].kind = "Assignment"
            /\ CountTokens(tokens, Token("Assignment", FALSE, PyNone))
                  = Cardinality(NodesOfType(tree, {"Assign"}))
            /\ \A a \in AnnTexts :
                  CountTokens(tokens, Token("Assignment", TRUE, Some(a)))
                     = Cardinality({i \in NodesOfType(tree, {"AnnAssign"}) :
                                       tree[i].node.annotation = Some(a)})

\* the class with x = y = 1 in a method, and z: int = 2 and u, v = 1, 2 in
\* a function nested in it: four tokens, one of them annotated
C11_Witness ==
    \E c \in Returns :
        /\ c.code.tree = ClassTree
        /\ Len(c.out.value[1].assignments) = 4
        /\ NumAnnotated(c.out.value[1].assignments) = 1
        /\ \E i \in 1..Len(ClassTree) :
              ClassTree[i].node.type = "AnnAssign" /\ Depth(ClassTree, i) = 4

\* C12: scan_text produces exactly one FunctionParameter token for every
\* arg node of the tree, whichever field of an `arguments` node holds it
\* (posonlyargs, args, vararg, kwonlyargs, kwarg) and whether the callable
\* is a function, an asynchronous function or a lambda: as many
\* unannotated tokens as arg nodes without annotation, and for every
\* annotation text as many annotated tokens with that text as arg nodes
\* with it.
C12_OneParameterPerArg ==
    \A c \in Returns :
        LET tree == c.code.tree
            tokens == c.out.value[1].func_params
            args == NodesOfType(tree, {"arg"})
        IN  /\ Len(tokens) = Cardinality(args)
            /\ \A k \in 1..Len(tokens) : tokens[k].kind = "FunctionParameter"
            /\ CountTokens(tokens, Token("FunctionParameter", FALSE, PyNone))
                  = Cardinality({i \in args : tree[i].node.annotation = PyNone})
            /\ \A a \in AnnTexts :
                  CountTokens(tokens, Token("FunctionParameter", TRUE, Some(a)))
                     = Cardinality({i \in args : tree[i].node.annotation = Some(a)})

\* the class, with parameters of the five kinds in a method and one each
\* in a nested function and a lambda: seven tokens, three annotated
C12_Witness ==
    \E c \in Returns :
        /\ c.code.tree = ClassTree
        /\ {ClassTree[i].field : i \in NodesOfType(ClassTree, {"arg"})}
              = {"posonlyargs", "args", "vararg", "kwonlyargs", "kwarg"}
        /\ Len(c.out.value[1].func_params) = 7
        /\ NumAnnotated(c.out.value[1].func_params) = 3

\* the function definitions of a tree that lie inside another one
NestedDefs(tree) ==
    {i \in NodesOfType(tree, FunctionDefs) :
        \E j \in Ancestors(tree, i) \ {i} : tree[j].node.type \in FunctionDefs}

\* C13: the number of FunctionReturn tokens of a scan is the number of
\* FunctionDef and AsyncFunctionDef nodes of the tree, at the top, in a
\* class or in another function (a lambda has none); the annotated ones
\* are as many as the definitions with a return annotation; and what lies
\* inside a nested definition is counted: the counters of assignments and
\* of parameters are the numbers of binding and of arg nodes of the whole
\* tree.
C13_OneReturnPerDefinition ==
    \A c \in Returns :
        LET tree == c.code.tree
            r == c.out.value[1]
            defs == NodesOfType(tree, FunctionDefs)
        IN  /\ r.total_func_returns_count = Cardinality(defs)
            /\ Len(r.func_returns) = Cardinality(defs)
            /\ r.annotated_func_returns_count
                  = Cardinality({i \in defs : tree[i].node.returns # PyNone})
            /\ \A k \in 1..Len(r.func_returns) :
                  r.func_returns[k].kind = "FunctionReturn"
            /\ r.total_assign_count = Cardinality(NodesOfType(tree, {"Assign", "AnnAssign"}))
            /\ r.total_func_params_count = Cardinality(NodesOfType(tree, {"arg"}))

\* the class: an asynchronous method with a return annotation and a
\* function nested in it, which has a parameter and two assignments
C13_Witness ==
    \E c \in Returns :
        /\ c.code.tree = ClassTree
        /\ c.out.value[1].total_func_returns_count = 2
        /\ c.out.value[1].annotated_func_returns_count = 1
        /\ \E i \in NestedDefs(ClassTree) :
              /\ \E j \in NodesOfType(ClassTree, {"arg"}) : i \in Ancestors(ClassTree, j)
              /\ \E j \in NodesOfType(ClassTree, {"AnnAssign"}) : i \in Ancestors(ClassTree, j)

\* the tokens of the nodes of some classes, the nodes taken in the given order
TokensOf(tree, order, types, token(_)) ==
    LET nodes == SelectSeq(order, LAMBDA i : tree[i].node.type \in types)
    IN  [k \in 1..Len(nodes) |-> token(tree[nodes[k]].node)]

\* C20: scan_text walks the tree once and the walk yields every node of
\* the tree exactly once (breadth first: a node before every deeper one,
\* and nodes of one depth in the order of the tree), so that each list
\* holds the tokens of all its nodes, each once, in the order of the walk.
C20_EveryNodeOnceInWalkOrder ==
    /\ \A c \in Returns :
          LET tree == c.code.tree
              r == c.out.value[1]
          IN  /\ Len(c.visited) = Len(tree)
              /\ Range(c.visited) = 1..Len(tree)
              /\ \A x, y \in 1..Len(tree) :
                    x < y =>
                       (Depth(tree, c.visited[x]) < Depth(tree, c.visited[y])
                        \/ (/\ Depth(tree, c.visited[x]) = Depth(tree, c.visited[y])
                            /\ c.visited[x] < c.visited[y]))
              /\ r.assignments =
                    TokensOf(tree, c.visited, {"Assign", "AnnAssign"}, Assignment)
              /\ r.func_params = TokensOf(tree, c.visited, {"arg"}, FunctionParameter)
              /\ r.func_returns = TokensOf(tree, c.visited, FunctionDefs, FunctionReturn)
              /\ r = scan_text(WalkedText(tree)).value[1]
    /\ \A f \in Range(frame) :
          /\ \A x, y \in 1..Len(f.visited) : x # y => f.visited[x] # f.visited[y]
          /\ Range(f.visited) \cap Range(f.todo) = {}

\* the class: the assignments of the method come before those of the
\* function nested in it, although w = lambda q: q is written last
C20_Witness ==
    \E c \in Returns :
        /\ c.code.tree = ClassTree
        /\ Len(c.visited) = 25
        /\ SelectSeq(c.visited, LAMBDA i : i \in {10, 16, 17, 21}) = <<10, 21, 16, 17>>
        /\ c.out.value[1].assignments[3] = Token("Assignment", TRUE, Some("int"))

\* C15: scanning keeps no state from one call to the next: any two
\* completed calls of scan_text on the same text, whatever was scanned
\* before and between them, have the same outcome: both raise, or both
\* return results with the same nine counters and the same three token
\* sequences (kinds, annotation states and texts, in the same order).
C15_SameTextSameResult ==
    \A i, j \in 1..Len(calls) :
        calls[i].code = calls[j].code =>
            /\ calls[i].out.exc = calls[j].out.exc
            /\ calls[i].out.exc = "" =>
                  LET r1 == calls[i].out.value[1]
                      r2 == calls[j].out.value[1]
                  IN  /\ Stats(r1) = Stats(r2)
                      /\ r1.assignments = r2.assignments
                      /\ r1.func_params = r2.func_params
                      /\ r1.func_returns = r2.func_returns

\* the class scanned, then the module, then the class again
C15_Witness ==
    /\ Len(calls) = 3
    /\ calls[1].code = ParsedText(ClassTree) /\ calls[2].code = ParsedText(ModuleTree)
    /\ calls[3].code = ParsedText(ClassTree)
    /\ calls[3].out.exc = "" /\ calls[3].out.value[1].total_assign_count = 4
    /\ calls[2].out.value[1].total_assign_count = 2

-----------------------------------------------------------------------------
(* Properties of the database wrapper.                                     *)

\* the `with` statements so far whose body was entered and left
ScopesLeft == {k \in 1..Len(log) : log[k] \in {"completed", "raised"}}

\* C16: Database.connect closes the connection upon exiting the `with`
\* scope: however the scope was left, by completion of the body or by an
\* exception raised in it, the Database is afterwards disconnected
\* (is_connected false, connection and cursor None, the connection made
\* for the scope closed, get_active_cursor raising), and the next
\* `with db.connect():` does not fail to connect for being connected.
C16_DisconnectedAfterScope ==
    /\ (ctx = "outside" /\ Len(log) \in ScopesLeft) =>
          /\ db = Database
          /\ get_active_cursor(db) = Raised("RuntimeError")
          /\ \A con \in 1..Len(conns) : ~conns[con].open
    /\ \A k \in ScopesLeft : k < Len(log) => log[k + 1] # "RuntimeError"

-----------------------------------------------------------------------------
(* FunctionReturn.__init__ on a function definition kept in a heap of      *)
(* syntax-tree objects.  A definition refers to its body, a list object of *)
(* statements; the text of a node is the sequence of the pieces the        *)
(* unparser writes for it.                                                 *)

MaxBody == 3        \* statements in the body of the definition

\* the statements of a body, as the unparser writes them
BodyStatements == {"...", "pass", "return bar"}

ListObject(items) == [cls |-> "list", items |-> items]

\* ast.Expr(ast.Constant(...))
ExprObject == [cls |-> "Expr", items |-> <<"...">>]

\* a function definition node: body is a reference into the heap
FunctionObject(type, name, args, body, decorator_list, returns) ==
    [cls |-> type, name |-> name, args |-> args, body |-> body,
     decorator_list |-> decorator_list, returns |-> returns]

\* the signature of a definition as the unparser writes it: decorators,
\* keyword, name, parameters and return annotation
Signature(node) ==
       [i \in 1..Len(node.decorator_list) |-> node.decorator_list[i]]
    \o <<IF node.cls = "AsyncFunctionDef" THEN "async def" ELSE "def",
         node.name, "(", node.args, ")">>
    \o (IF IsNone(node.returns) THEN <<>> ELSE <<"->", node.returns[1]>>)
    \o <<":">>

\* AnnotationItemBase._unparse_ast on the definition at reference n: the
\* signature, then what the body attribute refers to (a list of statements
\* or one statement)
_unparse_ast(h, n) == Signature(h[n]) \o h[h[n].body].items

\* a copy that keeps the body of the definition it is made from
bodyless_node_with_body(node, placeholder) == node

\* the copy FunctionReturn.__init__ unparses: every attribute of the node
\* but the body, which is the placeholder
bodyless_node(node, placeholder) ==
    FunctionObject(node.cls, node.name, node.args, placeholder,
                   node.decorator_list, node.returns)

\* the heap starts with one definition (1) and its body (2)
InitReturn ==
    /\ \E type \in FunctionDefs, returns \in OptAnn,
          decorator_list \in {<<>>, <<"@property">>},
          body \in SeqsUpTo(BodyStatements, MaxBody) \ {<<>>} :
          heap = <<FunctionObject(type, "foo", "bar", 2, decorator_list, returns),
                   ListObject(body)>>
    /\ op = PyNone
    /\ WalkerIdle /\ FoldIdle /\ ScanIdle /\ StepIdle /\ DbIdle /\ ScriptIdle

\* FunctionReturn(node) for the definition at reference n
NewFunctionReturn(n) ==
    /\ op = PyNone
    /\ heap[n].cls \in FunctionDefs
    /\ LET placeholder == Len(heap) + 1
           copy == Len(heap) + 2
           made == heap \o <<ExprObject, bodyless_node(heap[n], placeholder)>>
           token == FunctionReturn(Node(heap[n].cls, PyNone, heap[n].returns))
       IN  /\ heap' = made
           /\ op' = Some([node |-> n, before |-> heap,
                          is_annotated |-> token.is_annotated,
                          annotated_text |-> token.annotated_text,
                          code |-> _unparse_ast(made, copy)])
    /\ UNCHANGED <<walkerVars, foldVars, scanVars, stepVars, dbVars, scriptVars>>

NextReturn == NewFunctionReturn(1)

SpecReturn == InitReturn /\ [][NextReturn]_vars

\* C21: the source text of a Return token is the signature of the
\* definition followed by the one placeholder `...`, whatever the length
\* of the body: no statement of the body is in it (the text `...` is the
\* placeholder's), and building the token leaves the definition and its
\* body as they were.
C21_ReturnTextHasNoBody ==
    op # PyNone =>
        LET o == op[1]
            node == o.before[o.node]
            body == o.before[node.body].items
        IN  /\ o.code = Signature(node) \o <<"...">>
            /\ \A s \in Range(body) \ {"..."} : s \notin Range(o.code)
            /\ \A x \in DOMAIN o.before : heap[x] = o.before[x]
            /\ heap[o.node].body = node.body

\* an annotated asynchronous definition with a decorator and a body of
\* MaxBody statements
C21_Witness ==
    /\ op # PyNone
    /\ op[1].code = <<"@property", "async def", "foo", "(", "bar", ")",
                      "->", "int", ":", "...">>
    /\ op[1].is_annotated
    /\ Len(heap[2].items) = MaxBody
    /\ "return bar" \in Range(heap[2].items)

-----------------------------------------------------------------------------
(* A per-file result in the hands of its consumer.  AnnotationScanResult   *)
(* inherits __setattr__ from the frozen dataclass AnnotationScanResultBase,*)
(* whose fields are the three token lists; the nine counters are fields of *)
(* AnnotationScanStatsBase, which is not frozen.  The heap holds a group   *)
(* result (1) and the per-file result (2), its lists kept in its attrs.    *)

MaxUses == 3        \* operations the consumer applies to the result

\* fields of AnnotationScanResultBase
FrozenFields == {"assignments", "func_params", "func_returns"}

\* a __setattr__ that accepts every name
__setattr__unfrozen(obj, name, value) ==
    [exc |-> "", obj |-> [obj EXCEPT !.attrs[name] = value]]

\* AnnotationScanResultBase.__setattr__ as the frozen dataclass makes it,
\* on an instance of the subclass AnnotationScanResult: a field of the
\* frozen class is refused, any other name is set
__setattr__(obj, name, value) ==
    IF name \in FrozenFields
    THEN [exc |-> "FrozenInstanceError", obj |-> obj]
    ELSE [exc |-> "", obj |-> [obj EXCEPT !.attrs[name] = value]]

InitFrozen ==
    /\ \E r \in ResultPool :
          heap = <<GroupObject(AnnotationScanGroupResult), FileObject(r)>>
    /\ op = PyNone
    /\ WalkerIdle /\ FoldIdle /\ ScanIdle /\ StepIdle /\ DbIdle /\ ScriptIdle

\* the result as scan_text constructed it
Constructed == IF op = PyNone THEN heap[2] ELSE op[1].constructed

\* whether a counter was rebound or a list mutated in place so far
Touched == op # PyNone /\ op[1].touched

Use(kind, name, exc, h, touches) ==
    /\ NumOps < MaxUses
    /\ heap' = h
    /\ op' = Some([kind |-> kind, name |-> name, exc |-> exc, before |-> heap,
                   constructed |-> Constructed, touched |-> Touched \/ touches,
                   n |-> NumOps + 1])
    /\ UNCHANGED <<walkerVars, foldVars, scanVars, stepVars, dbVars, scriptVars>>

\* res.<name> = value
SetAttr(name, value) ==
    LET r == __setattr__(heap[2], name, value)
    IN  Use("setattr", name, r.exc, [heap EXCEPT ![2] = r.obj], r.exc = "")

\* res.<name>.append(token): the list object is changed in place
ListAppend(name, token) ==
    Use("append", name, "", [heap EXCEPT ![2].attrs[name] = Append(@, token)], TRUE)

\* group + res
AddToGroup == Use("add", "", "", add(heap, 1, 2).heap, FALSE)

NextFrozen ==
    \/ \E name \in FrozenFields : SetAttr(name, <<>>)
    \/ \E name \in Fields : SetAttr(name, 0)
    \/ \E name \in FrozenFields :
          ListAppend(name, Token("Assignment", TRUE, Some("int")))
    \/ AddToGroup

SpecFrozen == InitFrozen /\ [][NextFrozen]_vars

\* the counters __init__ computes from the token lists of a result
CountersOf(attrs) ==
    Stats(AnnotationScanResult(attrs.assignments, attrs.func_params,
                               attrs.func_returns))

\* an attempt to rebind a token list is rejected and changes nothing
RebindRejected ==
    (op # PyNone /\ op[1].kind = "setattr" /\ op[1].name \in FrozenFields) =>
        op[1].exc = "FrozenInstanceError" /\ heap = op[1].before

\* C22 (as stated): after construction no operation changes the
\* assignments, func_params or func_returns of a result, an attempt to
\* rebind one of them is rejected with an error and leaves it unchanged,
\* and the nine counters always agree with the lists.
C22_ListsFrozenCountersAgree ==
    /\ \A name \in FrozenFields : heap[2].attrs[name] = Constructed.attrs[name]
    /\ RebindRejected
    /\ Stats(heap[2].attrs) = CountersOf(heap[2].attrs)

\* C22 (amended): the three token-list attributes cannot be rebound, an
\* attempt is rejected with an error and leaves the result unchanged, and
\* combining the result into a group result leaves it unchanged; the lists
\* and the counters are those of the construction, and agree, as long as no
\* list was mutated in place and no counter rebound (rebinding a counter is
\* accepted).
C22_ListsCannotBeRebound ==
    /\ RebindRejected
    /\ (op # PyNone /\ op[1].kind = "add") => heap[2] = op[1].before[2]
    /\ (op # PyNone /\ op[1].kind = "setattr" /\ op[1].name \in Fields) =>
          op[1].exc = "" /\ heap[2].attrs[op[1].name] = 0
    /\ ~Touched => /\ heap[2] = Constructed
                   /\ Stats(heap[2].attrs) = CountersOf(heap[2].attrs)

\* a rebinding of func_params was refused after the result, with its five
\* tokens, had been added to the group result
C22_Witness ==
    /\ op # PyNone /\ op[1].kind = "setattr" /\ op[1].name = "func_params"
    /\ op[1].exc = "FrozenInstanceError"
    /\ op[1].n = 2 /\ ~Touched
    /\ heap[1].adds = 1
    /\ Len(heap[2].attrs.assignments) = 3
    /\ heap[2].attrs.total_assign_count = 3

-----------------------------------------------------------------------------
(* Database.iterate_table_rows: a generator over the rows a SELECT gives,  *)
(* fetched from the cursor in batches.  sqlite3 hands a row out as a tuple *)
(* and a batch (fetchmany) as a list; a column value is an integer.        *)

MaxRows == 3        \* rows selected
MaxFetch == 2       \* fetch_size

TupleObject(elems) == [cls |-> "tuple", items |-> elems]
IntObject(v) == [cls |-> "int", items |-> <<v>>]

\* the rows of the table: two columns each
RowPool == {TupleObject(<<IntObject(1), IntObject(10)>>),
            TupleObject(<<IntObject(2), IntObject(20)>>)}

Min(a, b) == IF a < b THEN a ELSE b

\* cursor.fetchmany(size) with the cursor at position pos: the rows handed out
fetchmany(pos, size) == SubSeq(table, pos + 1, Min(pos + size, Len(table)))

\* the last column of a row
last_col(row) == row.items[Len(row.items)]

\* row[0]
first_col(row) == row.items[1]

\* what is yielded for a batch when one_row_a_time is false: `rows` itself,
\* or tuple(row[0] for row in rows)
batch_item(batch_rows) ==
    IF it_args[1].first_col_only
    THEN TupleObject([i \in 1..Len(batch_rows) |-> first_col(batch_rows[i])])
    ELSE ListObject(batch_rows)

\* what is yielded for a row when one_row_a_time is true
row_item(row) == IF it_args[1].first_col_only THEN first_col(row) ELSE row

\* the Database of a running `with db.connect():`
ConnectedDatabase ==
    [is_connected |-> TRUE, connection |-> Some(1), cursor |-> Some(1)]

InitRows ==
    /\ table \in SeqsUpTo(RowPool, MaxRows)
    /\ \E one_row_a_time, first_col_only \in BOOLEAN, fetch_size \in 1..MaxFetch :
          it_args = Some([one_row_a_time |-> one_row_a_time,
                          first_col_only |-> first_col_only,
                          fetch_size |-> fetch_size])
    /\ it_state = "created" /\ cursor_pos = 0 /\ rows = <<>> /\ row_pos = 0
    /\ it_items = <<>> /\ it_last = "none"
    /\ \/ db = Database /\ conns = <<>> /\ ctx = "outside"
       \/ db = ConnectedDatabase /\ conns = <<Connection(TRUE, 0, 0)>> /\ ctx = "body"
    /\ log = <<>>
    /\ WalkerIdle /\ FoldIdle /\ HeapIdle /\ ScanIdle /\ StepIdle /\ ProxyIdle /\ MetricsIdle /\ CloneIdle
    /\ FetchIdle /\ SampleIdle

\* the generator yields item
Yield(item) ==
    /\ it_items' = Append(it_items, item)
    /\ it_state' = "suspended" /\ it_last' = "yield"

\* the generator returns
Stop ==
    /\ it_state' = "closed" /\ it_last' = "StopIteration"
    /\ UNCHANGED it_items

\* the top of the `while True` loop, as far as the next yield or the break
FetchAndYield ==
    LET batch_rows == fetchmany(cursor_pos, it_args[1].fetch_size)
    IN  /\ cursor_pos' = cursor_pos + Len(batch_rows)
        /\ rows' = batch_rows
        /\ IF ~it_args[1].one_row_a_time
           THEN Yield(batch_item(batch_rows)) /\ row_pos' = 0
           ELSE IF batch_rows # <<>>
           THEN Yield(row_item(batch_rows[1])) /\ row_pos' = 1
           ELSE Stop /\ row_pos' = 0

\* next() on the generator
IterNext ==
    /\ it_state # "closed"
    /\ IF it_state = "created"
       THEN IF get_active_cursor(db).exc # ""
            THEN /\ it_state' = "closed" /\ it_last' = "RuntimeError"
                 /\ UNCHANGED <<cursor_pos, rows, row_pos, it_items, conns>>
            ELSE /\ conns' = [conns EXCEPT ![get_active_cursor(db).value[1]].executed
                                              = @ + 1]
                 /\ FetchAndYield
       ELSE /\ UNCHANGED conns
            /\ IF it_args[1].one_row_a_time /\ row_pos < Len(rows)
               THEN /\ Yield(row_item(rows[row_pos + 1]))
                    /\ row_pos' = row_pos + 1
                    /\ UNCHANGED <<cursor_pos, rows>>
               ELSE IF Len(rows) = 0
               THEN Stop /\ UNCHANGED <<cursor_pos, rows, row_pos>>
               ELSE FetchAndYield
    /\ UNCHANGED <<table, it_args, db, ctx, log>>
    /\ UNCHANGED <<walkerVars, foldVars, heapVars, scanVars, stepVars, proxyVars, metricsVars, cloneVars,
                   fetchVars, sampleVars>>

NextRows == IterNext

\* the consumer iterates the generator to its end
SpecRows == InitRows /\ [][NextRows]_vars /\ WF_vars(NextRows)

RECURSIVE Flatten(_)
Flatten(batches) ==
    IF batches = <<>> THEN <<>> ELSE Head(batches).items \o Flatten(Tail(batches))

\* the rows, or first columns, a run is to deliver
Selected ==
    IF it_args[1].first_col_only
    THEN [i \in 1..Len(table) |-> table[i].items[1]]
    ELSE table

\* the rows, or first columns, in the given items
Delivered(its) == IF it_args[1].one_row_a_time THEN its ELSE Flatten(its)

Front(s) == SubSeq(s, 1, Len(s) - 1)

RowsDelivered ==
    /\ it_last \in {"yield", "StopIteration"} =>
          /\ Len(Delivered(it_items)) <= Len(table)
          /\ Delivered(it_items) = SubSeq(Selected, 1, Len(Delivered(it_items)))
          /\ Len(it_items) <= Len(table) + 1
    /\ it_last = "StopIteration" =>
          /\ Delivered(it_items) = Selected
          /\ IF it_args[1].one_row_a_time
             THEN it_items = Selected
             ELSE /\ it_items # <<>>
                  /\ it_items[Len(it_items)] =
                        (IF it_args[1].first_col_only
                         THEN TupleObject(<<>>) ELSE ListObject(<<>>))
                  /\ \A i \in 1..Len(it_items) - 1 :
                        /\ it_items[i].items # <<>>
                        /\ Len(it_items[i].items) <= it_args[1].fetch_size

-----------------------------------------------------------------------------
(* scan_files with its objects on a heap: the local `result` and the first *)
(* and third element of every triple are references.  A triple also keeps  *)
(* `totals`, the counters of the accumulator at the moment of the yield.   *)

InitAlias ==
    /\ fs \in SmallFolders
    /\ gen_paths \in Perms(DOMAIN fs)
    /\ listing = gen_paths
    /\ ret = "generator" /\ gen_state = "created" /\ gen_pos = 0
    /\ result = 0
    /\ yielded = <<>> /\ scanned = <<>> /\ last = "none" /\ pulls = 0
    /\ written = <<>>
    /\ heap = <<>> /\ op = PyNone
    /\ FoldIdle /\ ScanIdle /\ StepIdle /\ DbIdle /\ ScriptIdle

\* next() on the generator of scan_files: `result` is bound to a new group
\* result when the body starts; `result += file_result` binds it to what
\* __add__ returns
NextTriple ==
    /\ gen_state \in {"created", "suspended"}
    /\ LET started == IF gen_state = "created"
                      THEN <<GroupObject(AnnotationScanGroupResult)>> ELSE heap
           acc == IF gen_state = "created" THEN 1 ELSE result
       IN  IF gen_pos = Len(gen_paths)
           THEN /\ gen_state' = "closed" /\ last' = "StopIteration"
                /\ heap' = started /\ result' = acc
                /\ UNCHANGED <<gen_pos, yielded, scanned>>
           ELSE LET file_path == gen_paths[gen_pos + 1]
                    call == scan_file(fs[file_path])
                IN  /\ gen_pos' = gen_pos + 1
                    /\ scanned' = Append(scanned, file_path)
                    /\ IF call.exc # ""
                       THEN /\ gen_state' = "closed" /\ last' = call.exc
                            /\ heap' = started /\ result' = acc
                            /\ UNCHANGED yielded
                       ELSE LET file_result == Len(started) + 1
                                sum == add(Append(started, FileObject(call.value[1])),
                                           acc, file_result)
                            IN  /\ heap' = sum.heap
                                /\ result' = sum.value
                                /\ yielded' = Append(yielded,
                                      [summary |-> sum.value, file_path |-> file_path,
                                       file_result |-> file_result,
                                       totals |-> Stats(sum.heap[sum.value].attrs)])
                                /\ gen_state' = "suspended" /\ last' = "yield"
    /\ pulls' = pulls + 1
    /\ UNCHANGED <<fs, listing, ret, gen_paths, written, op>>
    /\ UNCHANGED <<foldVars, scanVars, stepVars, dbVars, scriptVars>>

NextAlias == NextTriple

SpecAlias == InitAlias /\ [][NextAlias]_vars

\* what the consumer reads from the summary of the k-th triple it keeps
ReadSummary(k) == Stats(heap[yielded[k].summary].attrs)

\* file k+1 .. j added a token to some counter
TokensBetween(k, j) ==
    \E i \in k + 1..j, f \in Fields : heap[yielded[i].file_result].attrs[f] > 0

-----------------------------------------------------------------------------
(* The counters of a group result under any sequence of combines.          *)

Categories == {<<"total_assign_count", "annotated_assign_count",
                 "unannotated_assign_count">>,
               <<"total_func_params_count", "annotated_func_params_count",
                 "unannotated_func_params_count">>,
               <<"total_func_returns_count", "annotated_func_returns_count",
                 "unannotated_func_returns_count">>}

\* C25: after any sequence of combines starting from fresh group results,
\* the operands being per-file results or group results built the same
\* way (the accumulator itself included), every group result has, for each
\* category, annotated + unannotated = total, and its nine counters are
\* not negative.
C25_CountersBalanced ==
    \A x \in GroupRefs :
        /\ \A c \in Categories :
              heap[x].attrs[c[2]] + heap[x].attrs[c[3]] = heap[x].attrs[c[1]]
        /\ \A f \in Fields : heap[x].attrs[f] >= 0

\* a group result after three combines, of a per-file result, of the other
\* group result and of itself, holding annotated and unannotated tokens
C25_Witness ==
    /\ \E o \in LastOp : o.n = MaxCombines /\ o.a = 1 /\ o.b = 1
    /\ heap[1].adds = 3 /\ heap[2].adds = 0
    /\ heap[1].attrs.annotated_assign_count > 0
    /\ heap[1].attrs.unannotated_assign_count > heap[1].attrs.annotated_assign_count
    /\ heap[1].attrs.annotated_func_returns_count > 0

-----------------------------------------------------------------------------
(* AnnotationScannerProxy.scan_folder of the metrics script: the generator *)
(* of AnnotationScanner.scan_folder is run to its end and the summary of   *)
(* the last triple returned.  For the progress line it prints, the loop    *)
(* takes every path relative to the working directory.                     *)

\* Path(file_path).relative_to(cwd): raises for a path that is not under cwd
relative_to(in_cwd) == IF in_cwd THEN Returned("path") ELSE Raised("ValueError")

\* the `for summary, file_path, file_res in gen` loop from generator g on;
\* `return summary` gives the accumulator with the counters it has then
RECURSIVE proxy_loop(_, _, _)
proxy_loop(g, folder, in_cwd) ==
    LET step == scan_files_next(g, folder)
    IN  IF step.out.exc = "StopIteration" THEN Returned(step.g.result)
        ELSE IF step.out.exc # "" THEN Raised(step.out.exc)
        ELSE IF relative_to(in_cwd).exc # "" THEN Raised(relative_to(in_cwd).exc)
        ELSE proxy_loop(step.g, folder, in_cwd)

\* AnnotationScannerProxy.scan_folder on a folder with its enumeration
proxy_scan_folder(folder, order, in_cwd) ==
    LET gen == scan_folder(order)
    IN  IF IsNone(gen)
        THEN Returned(AnnotationScanGroupResult)
        ELSE proxy_loop([state |-> "created", paths |-> gen[1], pos |-> 0,
                         result |-> AnnotationScanGroupResult], folder, in_cwd)

InitProxy ==
    /\ fs \in Folders
    /\ listing \in Perms(DOMAIN fs)
    /\ under_cwd \in BOOLEAN
    /\ proxy_out = PyNone
    /\ ret = "pending" /\ gen_state = "none" /\ gen_paths = <<>> /\ gen_pos = 0
    /\ result = AnnotationScanGroupResult
    /\ yielded = <<>> /\ scanned = <<>> /\ last = "none" /\ pulls = 0
    /\ written = <<>>
    /\ FoldIdle /\ HeapIdle /\ ScanIdle /\ StepIdle /\ DbIdle /\ RowsIdle /\ MetricsIdle /\ CloneIdle
    /\ FetchIdle /\ SampleIdle

\* AnnotationScannerProxy.scan_folder(dir_path)
ProxyScanFolder ==
    /\ proxy_out = PyNone
    /\ proxy_out' = Some(proxy_scan_folder(fs, listing, under_cwd))
    /\ UNCHANGED <<walkerVars, under_cwd>>
    /\ UNCHANGED <<foldVars, heapVars, scanVars, stepVars, dbVars, rowsVars, metricsVars, cloneVars,
                   fetchVars, sampleVars>>

NextProxy == ProxyScanFolder

SpecProxy == InitProxy /\ [][NextProxy]_vars

\* the sum of a counter over a set of files of the folder
RECURSIVE SumOver(_, _)
SumOver(paths, f) ==
    IF paths = {} THEN 0
    ELSE LET path == CHOOSE p \in paths : TRUE
         IN  scan_file(fs[path]).value[1][f] + SumOver(paths \ {path}, f)

\* the proxy returned the counter-wise sums over the matched files
ReturnsSums ==
    /\ proxy_out[1].exc = ""
    /\ \A f \in Fields : proxy_out[1].value[1][f] = SumOver(Matched, f)

\* C26: for every directory whose files all parse the proxy returns a
\* group result whose nine counters are the counter-wise sums over the
\* matched files, and an all-zero group result when no file matches.
C26_ProxyReturnsSums ==
    (proxy_out # PyNone /\ AllParse) =>
        /\ ReturnsSums
        /\ Matched = {} => proxy_out[1] = Returned(AnnotationScanGroupResult)

\* the same for the directories under the working directory
ProxyReturnsSumsUnderCwd == under_cwd => C26_ProxyReturnsSums

-----------------------------------------------------------------------------
(* start_scan of the metrics script: the folders of the repository root,   *)
(* sorted by name, are scanned one by one by all scanners and one CSV row  *)
(* is appended per folder scanned.  The external tools (pylint, radon,     *)
(* cognitive_complexity, pygit2) succeed or raise.                         *)

MaxRepos == 3       \* entries of the repository root

\* names of entries: f2@x, f10@x, F1@x, and f1, which has no owner part
NamePool == { <<"f", "2", "@", "x">>, <<"f", "1", "0", "@", "x">>,
              <<"F", "1", "@", "x">>, <<"f", "1">> }

\* what an entry is: a plain file; a folder that is removed before its
\* turn; a folder without Python files; a folder with a Python file that
\* parses, one whose file does not parse; a folder with a file that parses
\* on which an external tool fails
Kinds == {"file", "gone", "empty", "good", "bad", "toolfail"}

DirEntry(name, kind) == [name |-> name, kind |-> kind]

\* the Python files of a folder
FolderOf(kind) ==
    CASE kind \in {"good", "toolfail"} ->
             (PathSeq[1] :> Text(TRUE, <<Node("AnnAssign", Some("int"), PyNone),
                                         Node("FunctionDef", PyNone, PyNone)>>))
      [] kind = "bad" -> (PathSeq[1] :> BadText)
      [] OTHER -> <<>>

\* the listing of a folder
ListingOf(kind) == IF kind \in {"good", "toolfail", "bad"} THEN <<PathSeq[1]>> ELSE <<>>

\* the key natsorted gives a name: split in runs, digit runs as integers,
\* the other runs as they are, and an empty text part in front when the
\* name starts with a digit
natsorted_key(name) ==
    LET runs == SplitRuns(name, <<>>)
        parts == [i \in 1..Len(runs) |->
                    IF IsDigit(runs[i][1]) THEN NumPart(int(runs[i]))
                    ELSE TextPart([j \in 1..Len(runs[i]) |-> Ord(runs[i][j])])]
    IN  IF Len(parts) > 0 /\ parts[1].num THEN <<TextPart(<<>>)>> \o parts ELSE parts

RECURSIVE natsorted_from(_, _)
natsorted_from(s, done) ==
    IF s = <<>> THEN done
    ELSE LET x == Head(s)
             above == {i \in 1..Len(done) :
                          KeyLess(natsorted_key(x.name), natsorted_key(done[i].name))}
             at == IF above = {} THEN Len(done) + 1
                   ELSE CHOOSE i \in above : \A j \in above : i <= j
         IN  natsorted_from(Tail(s),
                 SubSeq(done, 1, at - 1) \o <<x>> \o SubSeq(done, at, Len(done)))

\* natsorted(folders, key=lambda path: Path(path).name): a stable sort
natsorted(entries) == natsorted_from(entries, <<>>)

\* the keys of the ScanSummary of a folder: those of the two complexity
\* scanners are there when the folder has a Python file
SummaryKeys(kind) ==
    {"name", "counters", "pylint", "bug_score"}
        \cup (IF ListingOf(kind) # <<>> THEN {"cyclomatic_complexity", "cognitive_complexity"}
              ELSE {})

CsvLine(kind, dir, counters, keys) ==
    [kind |-> kind, dir |-> dir, counters |-> counters, keys |-> keys]

\* scan_folder(dir_path, scanners): the scanners in their order, the first
\* exception leaving the call, `annotations` being what the proxy gives.  pylint reports no percentages ("NC") for a
\* folder without a line of Python, which float() refuses.
scanners_from(entry, in_cwd, annotations) ==
    IF "@" \notin Range(entry.name) THEN Raised("Exception")
    ELSE IF annotations.exc # "" THEN annotations
    ELSE IF relative_to(in_cwd).exc # "" THEN relative_to(in_cwd)
    ELSE IF ListingOf(entry.kind) = <<>> THEN Raised("ValueError")
    ELSE IF entry.kind = "toolfail" THEN Raised("Exception")
    ELSE Returned(CsvLine("row", entry.name, annotations.value[1],
                          SummaryKeys(entry.kind)))

\* scan_folder with the annotation counters the second scanner would give
scan_folder_scanners(entry, in_cwd) ==
    scanners_from(entry, in_cwd,
        proxy_scan_folder(FolderOf(entry.kind), ListingOf(entry.kind), in_cwd))

\* an except clause that lets everything but a SyntaxError pass
except_syntax_error(exc) == exc = "SyntaxError"

\* the bare `except:` around scan_folder: whether the exception is caught
except_any(exc) == TRUE

InitMetrics ==
    /\ \E n \in 0..MaxRepos :
          /\ repo_dirs \in [1..n -> {DirEntry(name, kind) : name \in NamePool, kind \in Kinds}]
          /\ \A i, j \in 1..n : i # j => repo_dirs[i].name # repo_dirs[j].name
    /\ csv_existed \in BOOLEAN
    /\ under_cwd \in BOOLEAN
    /\ run_state = "idle" /\ folders = <<>> /\ dir_pos = 0
    /\ csv_inited = FALSE /\ fieldnames = {} /\ csv_lines = <<>>
    /\ proxy_out = PyNone
    /\ WalkerIdle /\ FoldIdle /\ HeapIdle /\ ScanIdle /\ StepIdle /\ DbIdle /\ RowsIdle /\ CloneIdle
    /\ FetchIdle /\ SampleIdle

\* start_scan up to its for loop: the folders are listed and sorted, the
\* CSV file is opened for appending
StartScan ==
    /\ run_state = "idle"
    /\ folders' = natsorted(SelectSeq(repo_dirs, LAMBDA e : e.kind # "file"))
    /\ run_state' = "loop"
    /\ UNCHANGED <<repo_dirs, csv_existed, dir_pos, csv_inited, fieldnames, csv_lines>>
    /\ UNCHANGED <<walkerVars, foldVars, heapVars, scanVars, stepVars, dbVars,
                   rowsVars, proxyVars, cloneVars, fetchVars, sampleVars>>

\* the body of the for loop for the folder dir_path, `scan` being what
\* scan_folder does on it
LoopBody(dir_path, scan) ==
    IF dir_path.kind = "gone"
    THEN UNCHANGED <<run_state, csv_inited, fieldnames, csv_lines>>
    ELSE IF scan.exc # ""
    THEN /\ run_state' = IF except_any(scan.exc) THEN "loop" ELSE "crashed"
         /\ UNCHANGED <<csv_inited, fieldnames, csv_lines>>
    ELSE LET row == scan.value[1]
             names == IF csv_inited THEN fieldnames ELSE row.keys
             header == IF ~csv_inited /\ ~csv_existed
                       THEN <<CsvLine("header", <<>>, AnnotationScanGroupResult,
                                      names)>>
                       ELSE <<>>
         IN  /\ csv_inited' = TRUE
             /\ fieldnames' = names
             /\ IF row.keys \subseteq names
                THEN /\ csv_lines' = csv_lines \o header \o <<row>>
                     /\ run_state' = "loop"
                ELSE /\ csv_lines' = csv_lines \o header
                     /\ run_state' = "crashed"

\* one turn of the for loop
ProcessFolder ==
    /\ run_state = "loop" /\ dir_pos < Len(folders)
    /\ dir_pos' = dir_pos + 1
    /\ LoopBody(folders[dir_pos + 1],
                scan_folder_scanners(folders[dir_pos + 1], under_cwd))
    /\ UNCHANGED <<repo_dirs, csv_existed, folders>>
    /\ UNCHANGED <<walkerVars, foldVars, heapVars, scanVars, stepVars, dbVars,
                   rowsVars, proxyVars, cloneVars, fetchVars, sampleVars>>

\* the for loop is over and the CSV file is closed
EndScan ==
    /\ run_state = "loop" /\ dir_pos = Len(folders)
    /\ run_state' = "done"
    /\ UNCHANGED <<repo_dirs, csv_existed, folders, dir_pos, csv_inited, fieldnames,
                   csv_lines>>
    /\ UNCHANGED <<walkerVars, foldVars, heapVars, scanVars, stepVars, dbVars,
                   rowsVars, proxyVars, cloneVars, fetchVars, sampleVars>>

NextMetrics == StartScan \/ ProcessFolder \/ EndScan

SpecMetrics == InitMetrics /\ [][NextMetrics]_vars

\* the rows the run has written, and the header lines
CsvRows == SelectSeq(csv_lines, LAMBDA l : l.kind = "row")
CsvHeaders == {i \in 1..Len(csv_lines) : csv_lines[i].kind = "header"}

\* the rows written for a folder
RowsOf(dir) == {i \in 1..Len(CsvRows) : CsvRows[i].dir = dir.name}

\* whether some scanner raises for a folder
ScannerRaises(dir) == scan_folder_scanners(dir, under_cwd).exc # ""

\* C27: start_scan isolates failures per folder: a folder for which a
\* scanner raises (a file of it that does not parse included) gets no row
\* and the folders behind it are still processed; a folder whose scanners
\* all succeed gets exactly one row; the rows are in natural order of the
\* folder names; the header is written at most once, at the top, and only
\* when the CSV file did not exist before the run.
C27_FailuresIsolatedPerFolder ==
    /\ run_state # "crashed"
    /\ run_state = "done" => dir_pos = Len(folders)
    /\ \A k \in 1..dir_pos :
          Cardinality(RowsOf(folders[k])) =
              (IF folders[k].kind = "gone" \/ ScannerRaises(folders[k]) THEN 0 ELSE 1)
    /\ \A k \in dir_pos + 1..Len(folders) : RowsOf(folders[k]) = {}
    /\ \A i, j \in 1..Len(CsvRows) :
          i < j => ~KeyLess(natsorted_key(CsvRows[j].dir), natsorted_key(CsvRows[i].dir))
    /\ Cardinality(CsvHeaders) <= 1
    /\ CsvHeaders # {} => ~csv_existed /\ CsvHeaders = {1}
    /\ (~csv_existed /\ CsvRows # <<>>) => CsvHeaders = {1}

\* three folders listed out of order into a CSV file that did not exist:
\* the first got its row under the header, the second, with a file that
\* does not parse, got none, and the third behind it got its row
C27_Witness ==
    /\ run_state = "done" /\ Len(folders) = 3
    /\ repo_dirs[1].name = <<"f", "1", "0", "@", "x">>
    /\ repo_dirs[2].name = <<"f", "2", "@", "x">>
    /\ folders[1].name = <<"F", "1", "@", "x">> /\ folders[1].kind = "good"
    /\ folders[2].kind = "bad"
    /\ folders[3].kind = "good"
    /\ Len(csv_lines) = 3 /\ csv_lines[1].kind = "header"
    /\ csv_lines[2].dir = folders[1].name /\ csv_lines[3].dir = folders[3].name
    /\ csv_lines[3].counters.total_assign_count = 1

-----------------------------------------------------------------------------
(* clone_repos of the clone script, run again and again on one table with  *)
(* resume_progress left at its default.  A run is a process that can be    *)
(* stopped between any two of its steps; update_index opens the progress   *)
(* file for writing, which empties it, and then writes the index.          *)

MaxRepoCount == 3   \* repositories of the table
MaxRuns == 3        \* runs of the script

Indices == 0..repo_count - 1

\* an is_index_downloaded that takes the recorded index itself for not done
is_index_downloaded_strict(self_last_index, index) == index < self_last_index

\* _ProgressFile.is_index_downloaded
is_index_downloaded(self_last_index, index) == index <= self_last_index

\* _ProgressFile.__init__: int(read_text()), or -1 when that fails
read_progress(content) == IF IsNone(content) THEN -1 ELSE content[1]

InitClone ==
    /\ repo_count \in 0..MaxRepoCount
    /\ progress_file = PyNone /\ last_index = -1
    /\ clone_state = "idle" /\ clone_index = 0
    /\ dest_dirs = [i \in Indices |-> "none"]
    /\ clone_runs = 0
    /\ ended = {} /\ recorded = {} /\ redone = {} /\ redone_recorded = {}
    /\ torn = FALSE
    /\ under_cwd \in BOOLEAN /\ proxy_out = PyNone
    /\ WalkerIdle /\ FoldIdle /\ HeapIdle /\ ScanIdle /\ StepIdle /\ DbIdle /\ RowsIdle
    /\ MetricsIdle /\ FetchIdle /\ SampleIdle

CloneRest ==
    <<walkerVars, foldVars, heapVars, scanVars, stepVars, dbVars, rowsVars, proxyVars,
      metricsVars, fetchVars, sampleVars>>

\* the script is started: the progress file is read
StartRun ==
    /\ clone_state = "idle" /\ clone_runs < MaxRuns
    /\ clone_runs' = clone_runs + 1
    /\ last_index' = read_progress(progress_file)
    /\ clone_index' = 0
    /\ clone_state' = "top"
    /\ UNCHANGED <<repo_count, progress_file, dest_dirs, ended, recorded, redone,
                   redone_recorded, torn>>
    /\ UNCHANGED CloneRest

\* the body of the for loop up to the call of clone_repository; the run
\* ends when the loop is over, or by the ValueError of relative_to(cwd)
LoopTop ==
    /\ clone_state = "top"
    /\ IF clone_index = repo_count \/ relative_to(under_cwd).exc # ""
       THEN /\ clone_state' = "idle"
            /\ UNCHANGED <<clone_index, dest_dirs, redone, redone_recorded>>
       ELSE IF is_index_downloaded(last_index, clone_index)
       THEN /\ clone_index' = clone_index + 1
            /\ UNCHANGED <<clone_state, dest_dirs, redone, redone_recorded>>
       ELSE /\ dest_dirs' = [dest_dirs EXCEPT ![clone_index] = "partial"]
            /\ clone_state' = "cloning"
            /\ redone' = redone \cup ({clone_index} \cap ended)
            /\ redone_recorded' = redone_recorded \cup ({clone_index} \cap recorded)
            /\ UNCHANGED clone_index
    /\ UNCHANGED <<repo_count, progress_file, last_index, clone_runs, ended, recorded, torn>>
    /\ UNCHANGED CloneRest

\* clone_repository returns, or raises GitError and what it left is removed
CloneEnds(ok) ==
    /\ clone_state = "cloning"
    /\ dest_dirs' = [dest_dirs EXCEPT ![clone_index] = IF ok THEN "complete" ELSE "none"]
    /\ ended' = ended \cup {clone_index}
    /\ clone_state' = "ended"
    /\ UNCHANGED <<repo_count, progress_file, last_index, clone_index, clone_runs, recorded,
                   redone, redone_recorded, torn>>
    /\ UNCHANGED CloneRest

\* update_index: the attribute is set and the file opened for writing
UpdateIndexOpen ==
    /\ clone_state = "ended"
    /\ last_index' = clone_index
    /\ progress_file' = PyNone
    /\ clone_state' = "truncated"
    /\ UNCHANGED <<repo_count, clone_index, dest_dirs, clone_runs, ended, recorded, redone,
                   redone_recorded, torn>>
    /\ UNCHANGED CloneRest

\* update_index: the index is written and the file closed; next turn
UpdateIndexWrite ==
    /\ clone_state = "truncated"
    /\ progress_file' = Some(last_index)
    /\ recorded' = recorded \cup {last_index}
    /\ clone_index' = clone_index + 1
    /\ clone_state' = "top"
    /\ UNCHANGED <<repo_count, last_index, dest_dirs, clone_runs, ended, redone,
                   redone_recorded, torn>>
    /\ UNCHANGED CloneRest

\* the process is stopped: by KeyboardInterrupt in clone_repository
\* (sys.exit()), which leaves what was cloned so far, or anywhere else
Interrupt ==
    /\ clone_state \in {"top", "cloning", "ended", "truncated"}
    /\ clone_state' = "idle"
    /\ torn' = (torn \/ clone_state = "truncated")
    /\ UNCHANGED <<repo_count, progress_file, last_index, clone_index, dest_dirs, clone_runs,
                   ended, recorded, redone, redone_recorded>>
    /\ UNCHANGED CloneRest

NextClone ==
    \/ StartRun
    \/ LoopTop
    \/ \E ok \in BOOLEAN : CloneEnds(ok)
    \/ UpdateIndexOpen
    \/ UpdateIndexWrite
    \/ Interrupt

SpecClone == InitClone /\ [][NextClone]_vars

\* the highest index ever recorded, -1 if none
MaxRecorded ==
    IF recorded = {} THEN -1 ELSE CHOOSE i \in recorded : \A j \in recorded : j <= i

\* the index recorded now, between two runs
RecordedNow == read_progress(progress_file)

\* index i is recorded only after the attempt of i has ended, a run skips
\* exactly the indices up to the recorded one, and a repository stopped in
\* mid-clone is not skipped by a later run
RecordedAfterAttempt ==
    /\ recorded \subseteq ended
    /\ \A i \in Indices :
          (clone_state \in {"cloning", "ended", "truncated"} /\ i < clone_index
              /\ i > RecordedNow) => i \in ended
    /\ \A i \in Indices : dest_dirs[i] = "partial" => i > RecordedNow

-----------------------------------------------------------------------------
(* fetch_pages_aiter of the fetch script and its _LoopContext.  Dates are  *)
(* counted in days from the configured min_created; a query string is      *)
(* modelled as the mapping _join_query_strings reads from it (key -> value),*)
(* and the value of created as the pair of its two ends.                    *)

MaxClock == 5   \* the latest current time the runs reach, in days
MaxPages == 4   \* the highest page_num the runs reach

REPO_QUERY_RETRIES == 2
INCREASE_DAY_BY == 2

REPO_QUERY_GRAPHQL_PARAMS ==
    [queryStr |-> [language |-> "python", sort |-> "stars-desc"], maxResults |-> 40]

REPO_QUERY_RANGE_PARAMS ==
    [min_created |-> 0, max_created |-> 2, min_stars |-> 5, max_stars |-> 999999]

PageEnum(name) == [cls |-> "PageEnum", name |-> name]

QueryPage(last_cursor_id, has_next_page, page_repos) ==
    [cls |-> "QueryPage", last_cursor_id |-> last_cursor_id,
     has_next_page |-> has_next_page, repos |-> page_repos]

\* the pages a response can hold: pageInfo.lastCursorId is null or a cursor
Pages ==
    {QueryPage(c, h, r) : c \in {PyNone, Some("Y3Vyc29yOjE="), Some("Y3Vyc29yOjI=")},
                          h \in BOOLEAN, r \in {<<>>, <<1>>}}

\* a page that always counts as having results
has_no_results_never(page) == FALSE

\* QueryPage.has_no_results
has_no_results(page) == Len(page.repos) = 0

Max(a, b) == IF a >= b THEN a ELSE b

\* d[key] = value and del d[key] of a dict
SetItem(d, key, value) == [k \in DOMAIN d \cup {key} |-> IF k = key THEN value ELSE d[k]]
DelItem(d, key) == [k \in DOMAIN d \ {key} |-> d[k]]

\* _LoopContext._modify_params: the variables and the ranged_params it leaves
_modify_params(page, variables, params) ==
    IF page.cls = "QueryPage"
    THEN IF ~page.has_next_page \/ has_no_results(page)
         THEN [variables |-> DelItem(variables, "lastCursorId"),
               ranged_params |->
                   [params EXCEPT !.min_created = @ + INCREASE_DAY_BY,
                                  !.max_created = @ + INCREASE_DAY_BY]]
         ELSE [variables |-> SetItem(variables, "lastCursorId", page.last_cursor_id),
               ranged_params |-> params]
    ELSE [variables |-> variables, ranged_params |-> params]

\* _LoopContext._ranged_params_to_query
_ranged_params_to_query(params) ==
    [created |-> <<Min(params.min_created, params.max_created),
                   Max(params.min_created, params.max_created)>>,
     stars |-> <<Min(params.min_stars, params.max_stars),
                 Max(params.min_stars, params.max_stars)>>]

\* _LoopContext._join_query_strings: a later string wins
_join_query_strings(first, second) ==
    [k \in DOMAIN first \cup DOMAIN second |->
        IF k \in DOMAIN second THEN second[k] ELSE first[k]]

\* _LoopContext.new_payload: the payload, and the ranged_params it leaves
new_payload(page, params) ==
    LET m == _modify_params(page, REPO_QUERY_GRAPHQL_PARAMS, params)
        extended_query_str == _ranged_params_to_query(m.ranged_params)
        variables ==
            SetItem(m.variables, "queryStr",
                    _join_query_strings(m.variables.queryStr, extended_query_str))
    IN  [payload |-> [query |-> "repo_query.graphql", variables |-> variables],
         ranged_params |-> m.ranged_params]

InitFetch ==
    /\ fetch_state = "next"
    /\ ctx_page = PageEnum("NO_PAGE") /\ page_num = 1 /\ last_page = PyNone
    /\ ranged_params = REPO_QUERY_RANGE_PARAMS
    /\ clock \in -1..MaxClock
    /\ payload = PyNone /\ attempt = 0
    /\ WalkerIdle /\ FoldIdle /\ HeapIdle /\ ScanIdle /\ StepIdle /\ DbIdle
    /\ RowsIdle /\ ProxyIdle /\ MetricsIdle /\ CloneIdle /\ SampleIdle

FetchRest ==
    <<walkerVars, foldVars, heapVars, scanVars, stepVars, dbVars, rowsVars, proxyVars,
      metricsVars, cloneVars, sampleVars>>

\* time does not run backwards
Tick == clock' \in {clock, Min(clock + 1, MaxClock)}

\* the for loop asks the context for the next payload: _LoopContext.__next__
ContextNext ==
    /\ fetch_state = "next"
    /\ Tick
    /\ IF ctx_page.cls = "PageEnum"
       THEN LET n == new_payload(ctx_page, ranged_params)
            IN  /\ payload' = Some(n.payload)
                /\ ranged_params' = n.ranged_params
                /\ fetch_state' = "request"
                /\ UNCHANGED <<page_num, last_page>>
       ELSE IF ranged_params.min_created <= clock'
       THEN LET n == new_payload(ctx_page, ranged_params)
            IN  /\ page_num < MaxPages
                /\ page_num' = page_num + 1
                /\ last_page' = Some(ctx_page)
                /\ payload' = Some(n.payload)
                /\ ranged_params' = n.ranged_params
                /\ fetch_state' = "request"
       ELSE /\ fetch_state' = "stopped"
            /\ UNCHANGED <<page_num, last_page, payload, ranged_params>>
    /\ attempt' = 0
    /\ UNCHANGED ctx_page
    /\ UNCHANGED FetchRest

\* one turn of the retry loop: the response holds errors or a message
PostFails ==
    /\ fetch_state = "request" /\ attempt < REPO_QUERY_RETRIES
    /\ Tick
    /\ attempt' = attempt + 1
    /\ UNCHANGED <<fetch_state, ctx_page, page_num, last_page, ranged_params, payload>>
    /\ UNCHANGED FetchRest

\* one turn of the retry loop: the response holds a page, which is yielded
\* and then kept in ctx.page
PostYields(page) ==
    /\ fetch_state = "request" /\ attempt < REPO_QUERY_RETRIES
    /\ Tick
    /\ ctx_page' = page
    /\ fetch_state' = "next"
    /\ UNCHANGED <<page_num, last_page, ranged_params, payload, attempt>>
    /\ UNCHANGED FetchRest

\* the retry loop ran out: after the wait, ctx.page = CONT
RetriesExhausted ==
    /\ fetch_state = "request" /\ attempt = REPO_QUERY_RETRIES
    /\ Tick
    /\ ctx_page' = PageEnum("CONT")
    /\ fetch_state' = "next"
    /\ UNCHANGED <<page_num, last_page, ranged_params, payload, attempt>>
    /\ UNCHANGED FetchRest

NextFetch ==
    \/ ContextNext
    \/ PostFails
    \/ \E page \in Pages : PostYields(page)
    \/ RetriesExhausted

SpecFetch == InitFetch /\ [][NextFetch]_vars

\* the created window of a request, and whether it carries a cursor
CreatedOf(request) == request.variables.queryStr.created
HasCursor(request) == "lastCursorId" \in DOMAIN request.variables
WindowOf(params) == <<params.min_created, params.max_created>>

\* C29: the created window never moves backwards.  A request made after a
\* page with a next page and a result keeps the window and carries the
\* page's last cursor; one made after a page without a next page or without
\* results carries no cursor and has both ends of the window two days
\* later; one made after the retries ran out keeps the window and carries
\* no cursor; and the iteration stops exactly at a call that follows a page
\* and finds min_created later than the current time.
C29_WindowOnlyForward ==
    [][/\ ranged_params'.min_created >= ranged_params.min_created
       /\ ranged_params'.max_created >= ranged_params.max_created
       /\ (fetch_state = "next" /\ fetch_state' = "request") =>
             /\ CreatedOf(payload'[1]) = WindowOf(ranged_params')
             /\ (ctx_page.cls = "QueryPage" /\ ctx_page.has_next_page
                                             /\ ctx_page.repos # <<>>) =>
                   /\ WindowOf(ranged_params') = WindowOf(ranged_params)
                   /\ HasCursor(payload'[1])
                   /\ payload'[1].variables.lastCursorId = ctx_page.last_cursor_id
             /\ (ctx_page.cls = "QueryPage" /\ ~(ctx_page.has_next_page
                                                /\ ctx_page.repos # <<>>)) =>
                   /\ ~HasCursor(payload'[1])
                   /\ ranged_params'.min_created = ranged_params.min_created + 2
                   /\ ranged_params'.max_created = ranged_params.max_created + 2
             /\ ctx_page = PageEnum("CONT") =>
                   /\ WindowOf(ranged_params') = WindowOf(ranged_params)
                   /\ ~HasCursor(payload'[1])
       /\ fetch_state = "next" =>
             (fetch_state' = "stopped" <=>
                 /\ ctx_page.cls = "QueryPage"
                 /\ ranged_params.min_created > clock')
      ]_vars

\* the iteration has stopped after the window was moved twice, the second
\* time after a page that had a next page but no results
C29_Witness ==
    /\ fetch_state = "stopped"
    /\ ranged_params.min_created = 4
    /\ page_num = 3
    /\ last_page # PyNone /\ last_page[1].has_next_page /\ last_page[1].repos = <<>>

-----------------------------------------------------------------------------
(* take_repo_samples of the sampling script.  The three tables live in one *)
(* database; a row is <<id, kilobytes>> with kilobytes possibly NULL, the   *)
(* other columns play no part.  shuffle picks any order of the list.        *)

MaxSrcRepos == 3    \* rows of the source table

\* a Repository: the fields read here and the tuple to_tuple gives back
Repository(id, kilobytes) ==
    [id |-> id, kilobytes |-> kilobytes, _tuple_values |-> <<id, Some(kilobytes)>>]

\* Repository.from_tuple: transform_values puts 0 for a NULL integer
from_tuple(row) == Repository(row[1], IF IsNone(row[2]) THEN 0 ELSE row[2][1])

\* get_total_repos_size
get_total_repos_size(repo_list) ==
    SumSeq([i \in 1..Len(repo_list) |-> repo_list[i].kilobytes])

\* a loop test that lets every draw pass
within_size_always(size, max_size) == TRUE

\* the test that ends the redraw loop
within_size(size, max_size) == size <= max_size

\* repos[:sample_size]
FirstN(s, n) == SubSeq(s, 1, Min(n, Len(s)))

\* the tables the script can find: ids are the primary key
SrcTables ==
    UNION {{[i \in 1..n |-> <<i, k[i]>>] : k \in [1..n -> {PyNone, Some(2)}]} :
           n \in 0..MaxSrcRepos}

BlacklistTables ==
    {PyNone, Some(<<>>), Some(<<<<1, Some(1)>>>>), Some(<<<<2, PyNone>>, <<5, Some(1)>>>>)}

InitSample ==
    /\ \E src \in {PyNone} \cup {Some(t) : t \in SrcTables},
          bl \in BlacklistTables,
          dest \in {PyNone, Some(<<<<1, Some(2)>>, <<7, Some(2)>>>>)} :
          tables = [src |-> src, blacklist |-> bl, dest |-> dest]
    /\ blacklist_arg \in BOOLEAN
    /\ sample_size \in 0..MaxSrcRepos
    /\ max_total_repo_size \in 0..MaxSrcRepos
    /\ sample_state = "start"
    /\ blacklisted_repo_ids = {} /\ repos = <<>> /\ samples = <<>> /\ total_size = 0
    /\ dest_log = <<>>
    /\ WalkerIdle /\ FoldIdle /\ HeapIdle /\ ScanIdle /\ StepIdle /\ DbIdle
    /\ RowsIdle /\ ProxyIdle /\ MetricsIdle /\ CloneIdle /\ FetchIdle

SampleRest ==
    <<walkerVars, foldVars, heapVars, scanVars, stepVars, dbVars, rowsVars, proxyVars,
      metricsVars, cloneVars, fetchVars>>

\* the blacklisted ids are read, then the source table; the SELECT raises
\* when there is no source table
FetchRepos ==
    /\ sample_state = "start"
    /\ LET ids == IF blacklist_arg /\ ~IsNone(tables.blacklist)
                  THEN {from_tuple(row).id : row \in Range(tables.blacklist[1])}
                  ELSE {}
       IN  /\ blacklisted_repo_ids' = ids
           /\ IF IsNone(tables.src)
              THEN /\ sample_state' = "raised"
                   /\ UNCHANGED repos
              ELSE /\ repos' = SelectSeq([i \in 1..Len(tables.src[1]) |->
                                             from_tuple(tables.src[1][i])],
                                         LAMBDA repo : repo.id \notin ids)
                   /\ sample_state' = "loop"
    /\ UNCHANGED <<tables, blacklist_arg, sample_size, max_total_repo_size, samples,
                   total_size, dest_log>>
    /\ UNCHANGED SampleRest

\* one turn of the while loop
Draw ==
    /\ sample_state = "loop"
    /\ \E order \in Perms(1..Len(repos)) :
          LET shuffled == [i \in 1..Len(repos) |-> repos[order[i]]]
              drawn == FirstN(shuffled, sample_size)
          IN  /\ repos' = shuffled
              /\ samples' = drawn
              /\ total_size' = get_total_repos_size(drawn)
              /\ sample_state' =
                    IF within_size(get_total_repos_size(drawn), max_total_repo_size)
                    THEN "drawn" ELSE "loop"
    /\ UNCHANGED <<tables, blacklist_arg, sample_size, max_total_repo_size,
                   blacklisted_repo_ids, dest_log>>
    /\ UNCHANGED SampleRest

\* dest_table.drop()
DropDest ==
    /\ sample_state = "drawn"
    /\ tables' = [tables EXCEPT !.dest = PyNone]
    /\ dest_log' = Append(dest_log, "drop")
    /\ sample_state' = "dropped"
    /\ UNCHANGED <<blacklist_arg, sample_size, max_total_repo_size,
                   blacklisted_repo_ids, repos, samples, total_size>>
    /\ UNCHANGED SampleRest

\* dest_table.create()
CreateDest ==
    /\ sample_state = "dropped"
    /\ tables' = [tables EXCEPT !.dest = IF IsNone(@) THEN Some(<<>>) ELSE @]
    /\ dest_log' = Append(dest_log, "create")
    /\ sample_state' = "created"
    /\ UNCHANGED <<blacklist_arg, sample_size, max_total_repo_size,
                   blacklisted_repo_ids, repos, samples, total_size>>
    /\ UNCHANGED SampleRest

\* dest_table.add_rows(repo.to_tuple() for repo in samples)
AddRows ==
    /\ sample_state = "created"
    /\ tables' = [tables EXCEPT !.dest =
                     Some(@[1] \o [i \in 1..Len(samples) |-> samples[i]._tuple_values])]
    /\ dest_log' = Append(dest_log, "add")
    /\ sample_state' = "done"
    /\ UNCHANGED <<blacklist_arg, sample_size, max_total_repo_size,
                   blacklisted_repo_ids, repos, samples, total_size>>
    /\ UNCHANGED SampleRest

NextSample == FetchRepos \/ Draw \/ DropDest \/ CreateDest \/ AddRows

SpecSample == InitSample /\ [][NextSample]_vars

\* ids of the rows of a table, none when the table is absent
IdsOf(t) == IF IsNone(t) THEN {} ELSE {row[1] : row \in Range(t[1])}

\* the size of a row as the script counts it
SizeOf(row) == from_tuple(row).kilobytes

\* the blacklist table, when the call is given one
BlacklistIds == IF blacklist_arg THEN IdsOf(tables.blacklist) ELSE {}

\* the rows are a sample as the call asks for
GoodSample(rws) ==
    /\ Len(rws) <= sample_size
    /\ \A i \in 1..Len(rws) :
          /\ rws[i][1] \in IdsOf(tables.src)
          /\ \E j \in 1..Len(tables.src[1]) :
                tables.src[1][j][1] = rws[i][1] /\ SizeOf(tables.src[1][j]) = SizeOf(rws[i])
          /\ rws[i][1] \notin BlacklistIds
    /\ \A i, j \in 1..Len(rws) : i # j => rws[i][1] # rws[j][1]
    /\ SumSeq([i \in 1..Len(rws) |-> SizeOf(rws[i])]) <= max_total_repo_size

DrawnRows == [i \in 1..Len(samples) |-> samples[i]._tuple_values]

\* C30: what take_repo_samples writes to the destination table is a sample
\* of at most sample_size repositories of the source table, none of them
\* blacklisted, of a total size within max_total_repo_size; the destination
\* table is dropped or written only once such a sample is drawn, and the
\* redraw loop is left only with one.
C30_WrittenSampleIsGood ==
    /\ dest_log # <<>> => GoodSample(DrawnRows)
    /\ "add" \in Range(dest_log) => tables.dest = Some(DrawnRows)
    /\ sample_state \in {"drawn", "dropped", "created", "done"} => GoodSample(DrawnRows)
    /\ sample_state \in {"start", "loop", "raised"} => dest_log = <<>>

\* a sample of one has been written, drawn from two repositories left by
\* the blacklist, the other of which alone is too large
C30_Witness ==
    /\ sample_state = "done"
    /\ tables.dest = Some(DrawnRows)
    /\ Len(samples) = 1 /\ Len(repos) = 2
    /\ IdsOf(tables.src) \cap blacklisted_repo_ids # {}
    /\ repos[2].kilobytes > max_total_repo_size

====
